---------------------------- MODULE Spec2Model ----------------------------
(***************************************************************************)
(* LoopDeck import core: the adapter registry, the LangSmith and           *)
(* OpenTelemetry trace adapters, the generic normalization chain and the   *)
(* JSONL import orchestrator, modelled over an explicit model of parsed    *)
(* JSON / JavaScript values.                                               *)
(*                                                                         *)
(* A JavaScript value is a record tagged by t: "undefined", "null",        *)
(* "boolean" (b), "number" (n), "NaN", "string" (s), "array" (a, a         *)
(* sequence of values) or "object" (kv, the properties in insertion order, *)
(* each [k, v]).  A raised exception is the value tagged "throw"; every    *)
(* operator that reads a value passes a raised exception on.               *)
(***************************************************************************)
EXTENDS Integers, Sequences, FiniteSets, TLC

VARIABLES
    adapters,      \* AdapterRegistry.adapters: the Map's entries in iteration order
    otelMappings,  \* AdapterRegistry.otelMappings
    regLog,        \* history: every adapter handed to register, in call order
    probe,         \* the parsed value handed to detect / detectAdapter / normalize
    detected,      \* what the last detectAdapter call returned (or raised)
    normalized,    \* what the last adapter.normalize call returned (or raised)
    job,           \* the parseJsonlFile calls in flight: file, position, accumulators, result
    db,            \* db.reviewItems: the rows of the table in primary-key order
    store,         \* the state of useReviewStore
    inFlight       \* the async store actions in flight: action, position, locals

vars == <<adapters, otelMappings, regLog, probe, detected, normalized, job, db, store, inFlight>>

-----------------------------------------------------------------------------
(* JavaScript values *)

Undefined == [t |-> "undefined"]
Null == [t |-> "null"]
NaN == [t |-> "NaN"]
JBool(b) == [t |-> "boolean", b |-> b]
JNum(n) == [t |-> "number", n |-> n]
JStr(s) == [t |-> "string", s |-> s]
JArr(a) == [t |-> "array", a |-> a]
JObj(kv) == [t |-> "object", kv |-> kv]
KV(k, v) == [k |-> k, v |-> v]

\* F applied to the value of e: binds a variable to a value computed once
Let(e, F(_)) == CHOOSE r \in {F(x) : x \in {e}} : TRUE

\* a raised exception, with its message
Throw(m) == [t |-> "throw", m |-> m]
TypeError == Throw("TypeError")
IsThrow(v) == v.t = "throw"

\* the first raised exception among the values of a sequence, if any
FirstThrow(s) ==
    IF \E i \in 1..Len(s) : IsThrow(s[i])
    THEN s[CHOOSE i \in 1..Len(s) : IsThrow(s[i]) /\ \A j \in 1..(i - 1) : ~IsThrow(s[j])]
    ELSE Undefined

\* an object literal { k1: v1, ... }: raises when the evaluation of a property raises
MkObj(kv) ==
    LET t == FirstThrow([i \in 1..Len(kv) |-> kv[i].v])
    IN  IF IsThrow(t) THEN t ELSE JObj(kv)

\* an array built from computed elements
MkArr(a) == LET t == FirstThrow(a) IN IF IsThrow(t) THEN t ELSE JArr(a)

typeof(v) ==
    CASE v.t \in {"null", "array", "object"} -> "object"
      [] v.t = "NaN" -> "number"
      [] OTHER -> v.t

IsArray(v) == v.t = "array"

\* typeof v === 'object' && v !== null
IsObjectLike(v) == v.t \in {"array", "object"}

\* k in o, for o an object or an array parsed from JSON (an array has none of the keys read)
In(k, o) == o.t = "object" /\ \E i \in 1..Len(o.kv) : o.kv[i].k = k

\* o.k / o[k]: a TypeError on undefined and null, undefined on a missing property
Get(o, k) ==
    CASE o.t = "throw" -> o
      [] o.t \in {"undefined", "null"} -> TypeError
      [] o.t = "object" ->
            IF In(k, o)
            THEN o.kv[CHOOSE i \in 1..Len(o.kv) : o.kv[i].k = k].v
            ELSE Undefined
      [] o.t = "array" /\ k = "length" -> JNum(Len(o.a))
      [] OTHER -> Undefined

\* o?.k
GetOpt(o, k) == IF o.t \in {"undefined", "null"} THEN Undefined ELSE Get(o, k)

\* a[i] with a 0-based index, undefined out of range
At(a, i) ==
    CASE a.t = "throw" -> a
      [] a.t \in {"undefined", "null"} -> TypeError
      [] a.t = "array" /\ i + 1 \in 1..Len(a.a) -> a.a[i + 1]
      [] OTHER -> Undefined

Truthy(v) ==
    CASE v.t \in {"undefined", "null", "NaN"} -> FALSE
      [] v.t = "boolean" -> v.b
      [] v.t = "number" -> v.n # 0
      [] v.t = "string" -> v.s # ""
      [] OTHER -> TRUE

\* a || b
Or(a, b) == IF IsThrow(a) \/ Truthy(a) THEN a ELSE b

\* { ...o, k: v }: an existing key keeps its place, a new key is appended
SetKey(o, k, v) ==
    CASE IsThrow(o) -> o
      [] IsThrow(v) -> v
      [] In(k, o) -> JObj([i \in 1..Len(o.kv) |-> IF o.kv[i].k = k THEN KV(k, v) ELSE o.kv[i]])
      [] o.t = "object" -> JObj(Append(o.kv, KV(k, v)))
      [] OTHER -> JObj(<<KV(k, v)>>)

RECURSIVE ToStr(_)
RECURSIVE JoinStr(_, _)
\* Array.prototype.join(','): null and undefined elements give the empty string
JoinStr(a, i) ==
    IF i > Len(a) THEN ""
    ELSE (IF i > 1 THEN "," ELSE "")
         \o (IF a[i].t \in {"undefined", "null"} THEN "" ELSE ToStr(a[i]))
         \o JoinStr(a, i + 1)

\* the text of String(v)
ToStr(v) ==
    CASE v.t = "string" -> v.s
      [] v.t = "number" -> ToString(v.n)
      [] v.t = "boolean" -> IF v.b THEN "true" ELSE "false"
      [] v.t = "array" -> JoinStr(v.a, 1)
      [] v.t = "object" -> "[object Object]"
      [] OTHER -> v.t

\* String(v)
JString(v) == IF IsThrow(v) THEN v ELSE JStr(ToStr(v))

RECURSIVE JsonText(_)
RECURSIVE JsonItems(_, _)
RECURSIVE JsonProps(_, _, _)
JsonItems(a, i) ==
    IF i > Len(a) THEN ""
    ELSE (IF i > 1 THEN "," ELSE "") \o JsonText(a[i]) \o JsonItems(a, i + 1)

\* the properties of an object; a property whose value is undefined is left out
JsonProps(kv, i, first) ==
    IF i > Len(kv) THEN ""
    ELSE IF kv[i].v.t = "undefined" THEN JsonProps(kv, i + 1, first)
    ELSE (IF first THEN "" ELSE ",") \o "\"" \o kv[i].k \o "\":" \o JsonText(kv[i].v)
         \o JsonProps(kv, i + 1, FALSE)

\* the text of JSON.stringify(v) for v not undefined
JsonText(v) ==
    CASE v.t = "string" -> "\"" \o v.s \o "\""
      [] v.t = "number" -> ToString(v.n)
      [] v.t = "boolean" -> IF v.b THEN "true" ELSE "false"
      [] v.t = "array" -> "[" \o JsonItems(v.a, 1) \o "]"
      [] v.t = "object" -> "{" \o JsonProps(v.kv, 1, TRUE) \o "}"
      [] OTHER -> "null"

\* JSON.stringify(v)
JSONstringify(v) ==
    CASE IsThrow(v) -> v
      [] v.t = "undefined" -> Undefined
      [] OTHER -> JStr(JsonText(v))

\* new Date().toISOString() and uuidv4(): opaque fresh strings
Now == JStr("<now>")
uuidv4 == JStr("<uuid>")

SCHEMA_VERSION == 1

-----------------------------------------------------------------------------
(* LangSmith and OpenTelemetry format detectors *)

\* isLangSmithRun (langsmith.ts): never raises
isLangSmithRun(data) ==
    IF ~IsObjectLike(data) THEN FALSE
    ELSE IF In("outputs", data) /\ IsArray(Get(data, "outputs")) THEN FALSE
    ELSE IF /\ In("input", data)
            /\ IsObjectLike(Get(data, "input"))
            /\ In("prompt", Get(data, "input"))
            /\ In("context_chunks", Get(data, "input"))
         THEN FALSE
    ELSE LET hasId == In("run_id", data) \/ In("id", data)
             hasIO == In("inputs", data) \/ In("outputs", data)
             hasRunType == In("run_type", data) \/ In("name", data)
         IN  hasId /\ (hasIO \/ hasRunType)

\* an export detector that tries each of the four shapes in turn, falling
\* through a runs array that is empty or holds something other than a run
isLangSmithExportAnyShape(data) ==
    IF ~IsObjectLike(data) THEN FALSE
    ELSE IF IsArray(data)
         THEN Len(data.a) > 0 /\ \A i \in 1..Len(data.a) : isLangSmithRun(data.a[i])
    ELSE \/ /\ In("runs", data) /\ IsArray(Get(data, "runs"))
            /\ Len(Get(data, "runs").a) > 0
            /\ \A i \in 1..Len(Get(data, "runs").a) : isLangSmithRun(Get(data, "runs").a[i])
         \/ In("run", data) /\ isLangSmithRun(Get(data, "run"))
         \/ isLangSmithRun(data)

\* isLangSmithExport (langsmith.ts)
isLangSmithExport(data) ==
    IF ~IsObjectLike(data) THEN FALSE
    ELSE IF IsArray(data)
         THEN Len(data.a) > 0 /\ \A i \in 1..Len(data.a) : isLangSmithRun(data.a[i])
    ELSE IF In("runs", data) /\ IsArray(Get(data, "runs"))
         THEN LET runs == Get(data, "runs").a
              IN  Len(runs) > 0 /\ \A i \in 1..Len(runs) : isLangSmithRun(runs[i])
    ELSE IF In("run", data) /\ isLangSmithRun(Get(data, "run")) THEN TRUE
    ELSE isLangSmithRun(data)

\* isOTelExport (otel.ts): 'traceId' in spans[0] raises a TypeError when spans[0]
\* is null or a primitive
isOTelExport(data) ==
    IF ~IsObjectLike(data) THEN JBool(FALSE)
    ELSE IF In("resourceSpans", data) /\ IsArray(Get(data, "resourceSpans")) THEN JBool(TRUE)
    ELSE IF In("spans", data) /\ IsArray(Get(data, "spans"))
         THEN LET spans == Get(data, "spans").a
              IN  IF Len(spans) = 0 THEN JBool(FALSE)
                  ELSE IF ~IsObjectLike(spans[1]) THEN TypeError
                  ELSE JBool(In("traceId", spans[1]) /\ In("spanId", spans[1]))
    ELSE JBool(In("traceId", data) /\ In("spanId", data) /\ In("name", data))

-----------------------------------------------------------------------------
(* Adapter registry *)

\* a TraceAdapter object: its name and which detect / normalize functions it carries
Adapter(name, impl) == [t |-> "adapter", name |-> name, impl |-> impl]
langSmithAdapter == Adapter("langsmith", "langsmith")
otelAdapter == Adapter("otel", "otel")

\* adapter.detect(data)
Detect(adapter, data) ==
    IF adapter.impl = "langsmith" THEN JBool(isLangSmithExport(data)) ELSE isOTelExport(data)

\* register as a list that appends every adapter handed to it
registerAppend(as, adapter) == Append(as, adapter)

\* AdapterRegistry.register: Map.set keeps the place of a name already present
register(as, adapter) ==
    IF \E i \in 1..Len(as) : as[i].name = adapter.name
    THEN [i \in 1..Len(as) |-> IF as[i].name = adapter.name THEN adapter ELSE as[i]]
    ELSE Append(as, adapter)

\* AdapterRegistry.get
registryGet(as, name) ==
    IF \E i \in 1..Len(as) : as[i].name = name
    THEN as[CHOOSE i \in 1..Len(as) : as[i].name = name]
    ELSE Undefined

RECURSIVE detectAdapterFrom(_, _, _)
\* the loop of detectAdapter from the i-th entry on
detectAdapterFrom(as, i, data) ==
    IF i > Len(as) THEN Undefined
    ELSE Let(Detect(as[i], data), LAMBDA d :
             IF IsThrow(d) THEN d
             ELSE IF Truthy(d) THEN as[i]
             ELSE detectAdapterFrom(as, i + 1, data))

\* AdapterRegistry.detectAdapter
detectAdapter(as, data) == detectAdapterFrom(as, 1, data)

\* the registrations made when the import module loads
OrchestratorAdapters == register(register(<<>>, langSmithAdapter), otelAdapter)

-----------------------------------------------------------------------------
(* String and array helpers of the JavaScript runtime *)

Upper == "ABCDEFGHIJKLMNOPQRSTUVWXYZ"
Lower == "abcdefghijklmnopqrstuvwxyz"

LowerChar(c) ==
    IF \E i \in 1..26 : SubSeq(Upper, i, i) = c
    THEN LET i == CHOOSE j \in 1..26 : SubSeq(Upper, j, j) = c IN SubSeq(Lower, i, i)
    ELSE c

RECURSIVE LowerFrom(_, _)
LowerFrom(s, i) == IF i > Len(s) THEN "" ELSE LowerChar(SubSeq(s, i, i)) \o LowerFrom(s, i + 1)

\* String.prototype.toLowerCase, on the text of a string
toLowerCase(s) == LowerFrom(s, 1)

\* String.prototype.includes
includes(s, part) ==
    \E i \in 1..(Len(s) - Len(part) + 1) : SubSeq(s, i, i + Len(part) - 1) = part

\* v.toLowerCase(): a TypeError unless v is a string
JLower(v) ==
    CASE IsThrow(v) -> v
      [] v.t = "string" -> JStr(toLowerCase(v.s))
      [] OTHER -> TypeError

\* v.length
Length(v) ==
    CASE v.t = "array" -> JNum(Len(v.a))
      [] v.t = "string" -> JNum(Len(v.s))
      [] OTHER -> Get(v, "length")

RECURSIVE ConcatFrom(_, _)
ConcatFrom(parts, i) == IF i > Len(parts) THEN <<>> ELSE parts[i].a \o ConcatFrom(parts, i + 1)

\* the result of flatMap from the arrays its callback returned: raises when a call raised
Flatten(parts) ==
    LET t == FirstThrow(parts) IN IF IsThrow(t) THEN t ELSE JArr(ConcatFrom(parts, 1))

\* Array.prototype.find(m => m[field] === value): the first match; reading the field
\* of an element tagged in bad (null, undefined) met before it raises
FindBy(msgs, field, value, bad) ==
    LET hit(i) == msgs[i].t = "object" /\ Get(msgs[i], field) = value
        stop == {i \in 1..Len(msgs) : hit(i) \/ msgs[i].t \in bad}
    IN  IF stop = {} THEN Undefined
        ELSE LET i == CHOOSE j \in stop : \A k \in stop : j <= k
             IN  IF msgs[i].t \in bad THEN TypeError ELSE msgs[i]

\* messages.find(m => m.role === role)
FindRole(msgs, role) == FindBy(msgs, "role", JStr(role), {"undefined", "null"})

\* [...a].reverse()
Reverse(a) == [i \in 1..Len(a) |-> a[Len(a) + 1 - i]]

NumericStrings == <<"0", "1", "2", "3", "4", "5", "6", "7", "8", "9">>

\* Number(v); a string is numeric when it is empty or one decimal digit
ToNum(v) ==
    CASE IsThrow(v) -> v
      [] v.t \in {"number", "NaN"} -> v
      [] v.t = "null" -> JNum(0)
      [] v.t = "boolean" -> JNum(IF v.b THEN 1 ELSE 0)
      [] v.t \in {"string", "array"} ->
            LET s == ToStr(v)
            IN  IF s = "" THEN JNum(0)
                ELSE IF \E d \in 1..10 : NumericStrings[d] = s
                THEN JNum((CHOOSE d \in 1..10 : NumericStrings[d] = s) - 1)
                ELSE NaN
      [] OTHER -> NaN

\* a + b
Plus(a, b) ==
    CASE IsThrow(a) -> a
      [] IsThrow(b) -> b
      [] a.t = "number" /\ b.t = "number" -> JNum(a.n + b.n)
      [] a.t \in {"string", "array", "object"} \/ b.t \in {"string", "array", "object"} ->
            JStr(ToStr(a) \o ToStr(b))
      [] OTHER -> LET x == ToNum(a)
                      y == ToNum(b)
                  IN  IF x.t = "number" /\ y.t = "number" THEN JNum(x.n + y.n) ELSE NaN

\* a - b
Minus(a, b) ==
    LET x == ToNum(a)
        y == ToNum(b)
    IN  CASE IsThrow(x) -> x
          [] IsThrow(y) -> y
          [] x.t = "number" /\ y.t = "number" -> JNum(x.n - y.n)
          [] OTHER -> NaN

\* new Date(v).getTime() for the timestamps of the traces modelled: the ISO strings
\* of DateTable, a number of milliseconds, NaN otherwise
DateTable == <<"2024-01-01T00:00:00.000Z", "2024-01-01T00:00:01.000Z", "2024-01-01T00:00:02.000Z">>
DateGetTime(v) ==
    CASE v.t = "number" -> v
      [] v.t = "string" /\ \E i \in 1..Len(DateTable) : DateTable[i] = v.s ->
            JNum(1000 * ((CHOOSE i \in 1..Len(DateTable) : DateTable[i] = v.s) - 1))
      [] OTHER -> NaN

-----------------------------------------------------------------------------
(* LangSmith adapter (langsmith.ts) *)

\* getSpanType(runType)
lsGetSpanType(runType) ==
    IF IsThrow(runType) THEN runType
    ELSE IF ~Truthy(runType) THEN JStr("unknown")
    ELSE LET type == JLower(runType)
         IN  CASE IsThrow(type) -> type
               [] type.s \in {"llm", "chat_model"} -> JStr("llm")
               [] type.s \in {"retriever", "chain", "tool", "embedding"} -> type
               [] OTHER -> JStr("unknown")

\* extractPrompt(inputs): { prompt, systemPrompt }
lsExtractPrompt(inputs) ==
    IF ~IsObjectLike(inputs) THEN TypeError  \* 'messages' in a primitive
    ELSE IF In("messages", inputs) /\ IsArray(Get(inputs, "messages"))
    THEN LET messages == Get(inputs, "messages").a
             systemMsg == FindRole(messages, "system")
             userMsg == FindRole(messages, "user")
             lastUserMsg == FindRole(Reverse(messages), "user")
             raised == FirstThrow(<<systemMsg, userMsg, lastUserMsg>>)
         IN  IF IsThrow(raised) THEN raised
             ELSE JObj(<<KV("prompt", Or(GetOpt(lastUserMsg, "content"),
                                         Or(GetOpt(userMsg, "content"), JStr("")))),
                         KV("systemPrompt", GetOpt(systemMsg, "content"))>>)
    ELSE IF In("prompt", inputs) /\ Get(inputs, "prompt").t = "string"
    THEN JObj(<<KV("prompt", Get(inputs, "prompt"))>>)
    ELSE IF In("prompt", inputs) /\ IsObjectLike(Get(inputs, "prompt"))
    THEN LET promptObj == Get(inputs, "prompt")
         IN  JObj(<<KV("prompt", JString(Or(Get(promptObj, "template"),
                                            Or(Get(promptObj, "text"),
                                               JSONstringify(promptObj)))))>>)
    ELSE IF In("input", inputs) THEN JObj(<<KV("prompt", JString(Get(inputs, "input")))>>)
    ELSE IF In("question", inputs) THEN JObj(<<KV("prompt", JString(Get(inputs, "question")))>>)
    ELSE IF In("query", inputs) THEN JObj(<<KV("prompt", JString(Get(inputs, "query")))>>)
    ELSE JObj(<<KV("prompt", JSONstringify(inputs))>>)

\* extractResponse(outputs)
lsExtractResponse(outputs) ==
    LET gens == Get(outputs, "generations")
        g0 == At(gens, 0)
        g00 == IF g0.t = "array" THEN At(g0, 0)
               ELSE IF g0.t = "string" /\ g0.s # "" THEN JStr(SubSeq(g0.s, 1, 1))
               ELSE Undefined
        message == Get(outputs, "message")
    IN  IF ~IsObjectLike(outputs) THEN TypeError  \* 'generations' in a primitive
        ELSE IF In("generations", outputs) /\ IsArray(gens) /\ Truthy(g00)
        THEN Or(Get(g00, "text"), Or(GetOpt(Get(g00, "message"), "content"), JStr("")))
        ELSE IF In("message", outputs) /\ IsObjectLike(message)
        THEN JString(Or(Get(message, "content"), JStr("")))
        ELSE IF In("output", outputs) THEN JString(Get(outputs, "output"))
        ELSE IF In("text", outputs) THEN JString(Get(outputs, "text"))
        ELSE IF In("answer", outputs) THEN JString(Get(outputs, "answer"))
        ELSE IF In("response", outputs) THEN JString(Get(outputs, "response"))
        ELSE JSONstringify(outputs)

\* the chunk extractContextFromRetriever builds from one document
lsChunk(doc, index) ==
    LET metadata == Get(doc, "metadata")
    IN  MkObj(<<KV("id", JString(Or(Get(doc, "id"), uuidv4))),
                KV("text", JString(Or(Get(doc, "page_content"),
                                      Or(Get(doc, "content"), Or(Get(doc, "text"), JStr("")))))),
                KV("source", JString(Or(GetOpt(metadata, "source"),
                                        Or(Get(doc, "source"),
                                           JStr("retrieved_" \o ToString(index)))))),
                KV("score", ToNum(Or(Get(doc, "score"),
                                     Or(Get(doc, "similarity"),
                                        Or(GetOpt(metadata, "score"), JNum(0)))))),
                KV("metadata", metadata)>>)

\* extractContextFromRetriever(run)
extractContextFromRetriever(run) ==
    LET outputs == Get(run, "outputs")
        docs == Or(Get(outputs, "documents"), Or(Get(outputs, "docs"), Get(outputs, "results")))
    IN  CASE IsThrow(outputs) -> outputs
          [] ~Truthy(outputs) -> JArr(<<>>)
          [] IsArray(docs) -> MkArr([i \in 1..Len(docs.a) |-> lsChunk(docs.a[i], i - 1)])
          [] OTHER -> JArr(<<>>)

RECURSIVE lsAllLLMSpans(_)
\* every LLM run of the tree in pre-order, whether or not an LLM run lies below it
lsAllLLMSpans(run) ==
    LET child_runs == Get(run, "child_runs")
        below == IF ~IsArray(child_runs) THEN JArr(<<>>)
                 ELSE Flatten([i \in 1..Len(child_runs.a) |-> lsAllLLMSpans(child_runs.a[i])])
    IN  IF lsGetSpanType(Get(run, "run_type")) = JStr("llm")
        THEN Flatten(<<JArr(<<run>>), below>>)
        ELSE below

RECURSIVE findLLMLeafSpans(_)
\* findLLMLeafSpans(run): the LLM runs of the tree with no LLM run below them
findLLMLeafSpans(run) ==
    LET spanType == lsGetSpanType(Get(run, "run_type"))
        child_runs == Get(run, "child_runs")
        childLLMSpans ==
            IF ~IsArray(child_runs) THEN TypeError  \* flatMap is not a function
            ELSE Flatten([i \in 1..Len(child_runs.a) |-> findLLMLeafSpans(child_runs.a[i])])
    IN  CASE IsThrow(spanType) -> spanType
          [] spanType = JStr("llm") ->
                IF ~Truthy(child_runs) \/ Length(child_runs) = JNum(0) THEN JArr(<<run>>)
                ELSE IF IsThrow(childLLMSpans) THEN childLLMSpans
                ELSE IF Len(childLLMSpans.a) = 0 THEN JArr(<<run>>)
                ELSE childLLMSpans
          [] /\ spanType # JStr("llm")
             /\ Truthy(child_runs)
             /\ Length(child_runs).t = "number"
             /\ Length(child_runs).n > 0 ->
                childLLMSpans
          [] OTHER -> JArr(<<>>)

\* the retriever runs among a run and its children, without going deeper
directRetrieverSpans(run) ==
    LET child_runs == Get(run, "child_runs")
        isRetriever(r) == lsGetSpanType(Get(r, "run_type")) = JStr("retriever")
        children == IF IsArray(child_runs) THEN child_runs.a ELSE <<>>
    IN  JArr((IF isRetriever(run) THEN <<run>> ELSE <<>>) \o SelectSeq(children, isRetriever))

RECURSIVE findRelatedRetrieverSpans(_)
\* findRelatedRetrieverSpans(run): every retriever run of the tree, in pre-order
findRelatedRetrieverSpans(run) ==
    LET spanType == lsGetSpanType(Get(run, "run_type"))
        child_runs == Get(run, "child_runs")
        self == IF spanType = JStr("retriever") THEN <<run>> ELSE <<>>
        below ==
            IF ~Truthy(child_runs) THEN JArr(<<>>)
            ELSE IF ~IsArray(child_runs) THEN TypeError
            ELSE Flatten([i \in 1..Len(child_runs.a) |->
                            findRelatedRetrieverSpans(child_runs.a[i])])
    IN  CASE IsThrow(spanType) -> spanType
          [] IsThrow(below) -> below
          [] OTHER -> JArr(self \o below.a)

\* the comments convertRunToReviewItem joins from the feedback entries
RECURSIVE lsComments(_, _, _)
lsComments(fb, i, first) ==
    IF i > Len(fb) THEN ""
    ELSE IF ~Truthy(Get(fb[i], "comment")) THEN lsComments(fb, i + 1, first)
    ELSE (IF first THEN "" ELSE "\n")
         \o "[" \o ToStr(Or(Get(fb[i], "key"), JStr("feedback"))) \o "] "
         \o ToStr(Get(fb[i], "comment")) \o lsComments(fb, i + 1, FALSE)

\* the human_feedback object convertRunToReviewItem builds
lsFeedback(run) ==
    LET feedback == Get(run, "feedback")
        fb == feedback.a
        corrections == SelectSeq(fb, LAMBDA f : Truthy(Get(f, "correction")))
        comments == lsComments(fb, 1, TRUE)
    IN  IF ~Truthy(feedback) \/ ~(Length(feedback).t = "number" /\ Length(feedback).n > 0)
        THEN JObj(<<>>)
        ELSE IF ~IsArray(feedback) THEN TypeError  \* filter is not a function
        ELSE IF \E i \in 1..Len(fb) : fb[i].t \in {"undefined", "null"} THEN TypeError
        ELSE JObj((IF Len(corrections) > 0
                   THEN <<KV("corrected_text", Get(corrections[1], "correction"))>>
                   ELSE <<>>)
                  \o (IF comments # "" THEN <<KV("comments", JStr(comments))>> ELSE <<>>))

\* convertRunToReviewItem(run, now, contextChunks)
convertRunToReviewItem(run, contextChunks) ==
    LET runId == Or(Get(run, "run_id"), Or(Get(run, "id"), uuidv4))
        inputs == Or(Get(run, "inputs"), JObj(<<>>))
        outputs == Or(Get(run, "outputs"), JObj(<<>>))
        extracted == lsExtractPrompt(inputs)
        response == lsExtractResponse(outputs)
        start_time == Get(run, "start_time")
        end_time == Get(run, "end_time")
        latency0 == Or(Get(run, "latency"), JNum(0))
        latencyMs == IF ~Truthy(latency0) /\ Truthy(start_time) /\ Truthy(end_time)
                     THEN Minus(DateGetTime(end_time), DateGetTime(start_time))
                     ELSE latency0
        modelId == Or(Get(run, "model"),
                      Or(Get(run, "model_name"),
                         Or(GetOpt(GetOpt(Get(run, "extra"), "metadata"), "model"),
                            JStr("langsmith"))))
        humanFeedback == lsFeedback(run)
    IN  MkObj(<<
          KV("id", runId),
          KV("version", JNum(SCHEMA_VERSION)),
          KV("created_at", Or(start_time, Now)),
          KV("updated_at", Now),
          KV("status", JStr("pending")),
          KV("tags", IF Truthy(Get(run, "session_name"))
                     THEN JArr(<<Get(run, "session_name")>>) ELSE Undefined),
          KV("trace_metadata", MkObj(<<
              KV("trace_id", runId),
              KV("span_id", runId),
              KV("parent_id", Get(run, "parent_run_id")),
              KV("span_type", lsGetSpanType(Get(run, "run_type"))),
              KV("source", JStr("langsmith")),
              KV("session_id", Get(run, "session_id")),
              KV("error", Get(run, "error")),
              KV("latency_ms", latencyMs),
              KV("original_data", MkObj(<<KV("run_type", Get(run, "run_type")),
                                          KV("name", Get(run, "name")),
                                          KV("extra", Get(run, "extra"))>>))>>)),
          KV("input", MkObj(<<KV("prompt", Get(extracted, "prompt")),
                              KV("system_prompt", Get(extracted, "systemPrompt")),
                              KV("context_chunks", contextChunks)>>)),
          KV("outputs", IF IsThrow(response) THEN response
                        ELSE IF Truthy(response)
                        THEN MkArr(<<MkObj(<<
                               KV("model_id", modelId),
                               KV("text", response),
                               KV("token_usage",
                                  Or(Get(run, "total_tokens"),
                                     Plus(Or(Get(run, "prompt_tokens"), JNum(0)),
                                          Or(Get(run, "completion_tokens"), JNum(0))))),
                               KV("latency_ms", latencyMs)>>)>>)
                        ELSE JArr(<<>>)),
          KV("human_feedback", humanFeedback)>>)

\* the records normalize builds from one root run
lsItemsOfRun(run) ==
    Let(findRelatedRetrieverSpans(run), LAMBDA retrieverSpans :
    Let(IF IsThrow(retrieverSpans) THEN retrieverSpans
        ELSE Flatten([i \in 1..Len(retrieverSpans.a) |->
                        extractContextFromRetriever(retrieverSpans.a[i])]),
        LAMBDA contextChunks :
    Let(IF IsThrow(contextChunks) THEN contextChunks ELSE findLLMLeafSpans(run),
        LAMBDA llmSpans :
    Let(IF IsThrow(llmSpans) THEN <<>>
        ELSE IF Len(llmSpans.a) > 0 THEN llmSpans.a ELSE <<run>>,
        LAMBDA converted :
    IF IsThrow(llmSpans) THEN llmSpans
    ELSE MkArr([i \in 1..Len(converted) |->
                  convertRunToReviewItem(converted[i], contextChunks)])))))

\* the runs langSmithAdapter.normalize reads from its argument
lsRuns(data) ==
    CASE IsArray(data) -> data
      [] ~IsObjectLike(data) -> TypeError  \* 'runs' in a primitive
      [] In("runs", data) /\ IsArray(Get(data, "runs")) -> Get(data, "runs")
      [] In("run", data) /\ Truthy(Get(data, "run")) -> JArr(<<Get(data, "run")>>)
      [] isLangSmithRun(data) -> JArr(<<data>>)
      [] OTHER -> JArr(<<>>)

\* langSmithAdapter.normalize(data): one record, or an array of records
langSmithNormalize(data) ==
    Let(lsRuns(data), LAMBDA runs :
    Let(IF IsThrow(runs) THEN runs
        ELSE Flatten([i \in 1..Len(runs.a) |-> lsItemsOfRun(runs.a[i])]),
        LAMBDA items :
    IF IsThrow(items) THEN items
    ELSE IF Len(items.a) = 1 THEN items.a[1]
    ELSE items))

-----------------------------------------------------------------------------
(* OpenTelemetry adapter (otel.ts) *)

\* DEFAULT_OTEL_MAPPINGS
DEFAULT_OTEL_MAPPINGS ==
    [promptAttributes |-> <<"gen_ai.prompt", "gen_ai.prompt.0.content", "llm.prompts",
                            "llm.prompts.0", "ai.prompt.text", "openai.prompt",
                            "anthropic.prompt">>,
     responseAttributes |-> <<"gen_ai.completion", "gen_ai.completion.0.content",
                              "llm.responses", "llm.responses.0", "ai.response.text",
                              "openai.completion", "anthropic.completion">>,
     modelAttributes |-> <<"gen_ai.request.model", "gen_ai.response.model", "llm.model",
                           "llm.model_name", "ai.model.id", "openai.model",
                           "anthropic.model">>,
     tokenAttributes |->
        [input |-> <<"gen_ai.usage.input_tokens", "gen_ai.usage.prompt_tokens",
                     "llm.token_count.prompt", "ai.usage.input_tokens">>,
         output |-> <<"gen_ai.usage.output_tokens", "gen_ai.usage.completion_tokens",
                      "llm.token_count.completion", "ai.usage.output_tokens">>,
         total |-> <<"gen_ai.usage.total_tokens", "llm.token_count.total",
                     "ai.usage.total_tokens">>],
     llmSpanNames |-> <<"llm.chat", "llm.completion", "llm", "ChatOpenAI", "ChatAnthropic",
                        "OpenAI", "Anthropic">>,
     retrieverSpanNames |-> <<"retriever", "vectorstore", "Retriever",
                              "VectorStoreRetriever">>]

\* the value the last property named k of an object literal gives it
lastGiven(mappings, k) ==
    mappings[CHOOSE i \in 1..Len(mappings) :
                /\ mappings[i].k = k
                /\ \A later \in (i + 1)..Len(mappings) : mappings[later].k # k].v

\* the table is left as it is
keepOTelMappings(current, mappings) == current

\* AdapterRegistry.setOTelMappings: { ...this.otelMappings, ...mappings }, with
\* mappings the properties of the argument in their order
setOTelMappings(current, mappings) ==
    [f \in DOMAIN current |->
        IF \E i \in 1..Len(mappings) : mappings[i].k = f
        THEN lastGiven(mappings, f)
        ELSE current[f]]

RECURSIVE getAttributeValue(_)
RECURSIVE kvlistObject(_, _, _)
\* the loop of getAttributeValue over kvlistValue.values
kvlistObject(values, i, obj) ==
    IF i > Len(values) THEN obj
    ELSE Let(Get(values[i], "key"), LAMBDA key :
         IF IsThrow(key) THEN key
         ELSE Let(getAttributeValue(Get(values[i], "value")), LAMBDA v :
              IF IsThrow(v) THEN v
              ELSE kvlistObject(values, i + 1, JObj(SetKey(obj, ToStr(key), v).kv))))

\* getAttributeValue(value)
getAttributeValue(value) ==
    IF value.t \in {"throw", "undefined", "null"} THEN Get(value, "stringValue")
    ELSE Let(<<Get(value, "stringValue"), Get(value, "intValue"), Get(value, "doubleValue"),
               Get(value, "boolValue"), Get(value, "arrayValue"), Get(value, "kvlistValue")>>,
             LAMBDA f :
         IF f[1] # Undefined THEN f[1]
         ELSE IF f[2] # Undefined THEN ToNum(f[2])
         ELSE IF f[3] # Undefined THEN f[3]
         ELSE IF f[4] # Undefined THEN f[4]
         ELSE IF Truthy(f[5])
         THEN Let(Get(f[5], "values"), LAMBDA values :
                  IF ~IsArray(values) THEN TypeError
                  ELSE MkArr([i \in 1..Len(values.a) |-> getAttributeValue(values.a[i])]))
         ELSE IF Truthy(f[6])
         THEN Let(Get(f[6], "values"), LAMBDA values :
                  IF ~IsArray(values) THEN TypeError
                  ELSE kvlistObject(values.a, 1, JObj(<<>>)))
         ELSE Undefined)

RECURSIVE getAttributeArray(_, _, _)
\* the first loop of getAttribute: the array-of-key/value encoding
getAttributeArray(attributes, keys, i) ==
    IF i > Len(keys) THEN [found |-> FALSE, value |-> Undefined]
    ELSE Let(FindBy(attributes, "key", JStr(keys[i]), {"undefined", "null"}), LAMBDA attr :
         IF IsThrow(attr) THEN [found |-> TRUE, value |-> attr]
         ELSE IF attr # Undefined
         THEN [found |-> TRUE, value |-> getAttributeValue(Get(attr, "value"))]
         ELSE getAttributeArray(attributes, keys, i + 1))

RECURSIVE getAttributeObject(_, _, _)
\* the second loop of getAttribute: flattened and nested object encodings
getAttributeObject(span, keys, i) ==
    IF i > Len(keys) THEN Undefined
    ELSE IF ~IsObjectLike(span) THEN TypeError  \* key in a primitive
    ELSE IF In(keys[i], span) THEN Get(span, keys[i])
    ELSE Let(Get(span, "attributes"), LAMBDA attrs :
         IF attrs.t = "object" /\ In(keys[i], attrs) THEN Get(attrs, keys[i])
         ELSE getAttributeObject(span, keys, i + 1))

\* getAttribute(span, keys)
getAttribute(span, keys) ==
    Let(Get(span, "attributes"), LAMBDA attributes :
    IF IsThrow(attributes) THEN attributes
    ELSE Let(IF IsArray(attributes)
             THEN getAttributeArray(attributes.a, keys, 1)
             ELSE [found |-> FALSE, value |-> Undefined],
             LAMBDA viaArray :
         IF viaArray.found THEN viaArray.value
         ELSE getAttributeObject(span, keys, 1)))

RECURSIVE getAttributesFrom(_, _, _)
getAttributesFrom(attributes, i, obj) ==
    IF i > Len(attributes) THEN obj
    ELSE Let(Get(attributes[i], "key"), LAMBDA key :
         IF IsThrow(key) THEN key
         ELSE Let(getAttributeValue(Get(attributes[i], "value")), LAMBDA v :
              IF IsThrow(v) THEN v
              ELSE getAttributesFrom(attributes, i + 1, JObj(SetKey(obj, ToStr(key), v).kv))))

\* getAttributesObject(span)
getAttributesObject(span) ==
    Let(Get(span, "attributes"), LAMBDA attributes :
    IF IsThrow(attributes) THEN attributes
    ELSE IF IsArray(attributes) THEN getAttributesFrom(attributes.a, 1, JObj(<<>>))
    ELSE IF attributes.t = "object" THEN attributes
    ELSE JObj(<<>>))

RECURSIVE firstDefined(_, _, _)
\* for (const key of keys) { v = getAttribute(span, [key]); if (v !== undefined) break; }
firstDefined(span, keys, i) ==
    IF i > Len(keys) THEN Undefined
    ELSE Let(getAttribute(span, <<keys[i]>>), LAMBDA v :
         IF v # Undefined THEN v ELSE firstDefined(span, keys, i + 1))

\* whether the lower-cased span name contains one of the (lower-cased) names
nameMatches(name, names) == \E i \in 1..Len(names) : includes(name, toLowerCase(names[i]))

\* isLLMSpan(span, mappings): a JavaScript boolean, or the TypeError of
\* span.name.toLowerCase() when the name is not a string
isLLMSpan(span, mappings) ==
    Let(JLower(Get(span, "name")), LAMBDA name :
    IF IsThrow(name) THEN name
    ELSE IF nameMatches(name.s, mappings.llmSpanNames) THEN JBool(TRUE)
    ELSE Let(firstDefined(span, mappings.promptAttributes, 1), LAMBDA hasPrompt :
         IF IsThrow(hasPrompt) THEN hasPrompt
         ELSE IF hasPrompt # Undefined THEN JBool(TRUE)
         ELSE Let(firstDefined(span, mappings.responseAttributes, 1), LAMBDA hasResponse :
              IF IsThrow(hasResponse) THEN hasResponse
              ELSE JBool(hasResponse # Undefined))))

\* isRetrieverSpan(span, mappings)
isRetrieverSpan(span, mappings) ==
    Let(JLower(Get(span, "name")), LAMBDA name :
    IF IsThrow(name) THEN name ELSE JBool(nameMatches(name.s, mappings.retrieverSpanNames)))

\* getSpanType(span, mappings)
otelGetSpanType(span, mappings) ==
    Let(isLLMSpan(span, mappings), LAMBDA llm :
    IF IsThrow(llm) THEN llm
    ELSE IF Truthy(llm) THEN JStr("llm")
    ELSE IF Truthy(isRetrieverSpan(span, mappings)) THEN JStr("retriever")
    ELSE Let(toLowerCase(Get(span, "name").s), LAMBDA name :
         IF includes(name, "tool") \/ includes(name, "function") THEN JStr("tool")
         ELSE IF includes(name, "chain") THEN JStr("chain")
         ELSE IF includes(name, "embed") THEN JStr("embedding")
         ELSE JStr("unknown")))

\* the { prompt, systemPrompt } extractPrompt builds from the messages of a prompt;
\* bad are the kinds of element on which reading the role raises
otelPromptOfMessages(messages, bad, fallback) ==
    Let(<<FindBy(messages, "role", JStr("system"), bad),
          FindBy(messages, "role", JStr("user"), bad)>>, LAMBDA found :
    Let(FirstThrow(found), LAMBDA raised :
    IF IsThrow(raised) THEN raised
    ELSE JObj(<<KV("prompt", Or(GetOpt(found[2], "content"), fallback)),
                KV("systemPrompt", GetOpt(found[1], "content"))>>)))

\* extractPrompt(span, mappings): { prompt, systemPrompt }
otelExtractPrompt(span, mappings) ==
    Let(firstDefined(span, mappings.promptAttributes, 1), LAMBDA configured :
    Let(IF configured = Undefined
        THEN getAttribute(span, <<"input", "query", "question", "user_input">>)
        ELSE configured,
        LAMBDA prompt :
    IF IsThrow(prompt) THEN prompt
    ELSE IF IsArray(prompt)
    THEN otelPromptOfMessages(prompt.a, {"null"},
                              IF Len(prompt.a) > 0 /\ prompt.a[1].t = "string"
                              THEN prompt.a[1] ELSE JSONstringify(prompt))
    ELSE IF prompt.t = "object" /\ In("messages", prompt)
    THEN Let(Get(prompt, "messages"), LAMBDA msgs :
             IF ~IsArray(msgs) THEN TypeError  \* find is not a function
             ELSE otelPromptOfMessages(msgs.a, {"undefined", "null"}, JStr("")))
    ELSE JObj(<<KV("prompt", JString(Or(prompt, JStr(""))))>>)))

\* first.content || first.text || first.message?.content || JSON.stringify(first)
otelResponseOf(first) ==
    Or(Get(first, "content"),
       Or(Get(first, "text"),
          Or(GetOpt(Get(first, "message"), "content"), JSONstringify(first))))

\* extractResponse(span, mappings)
otelExtractResponse(span, mappings) ==
    Let(firstDefined(span, mappings.responseAttributes, 1), LAMBDA configured :
    Let(IF configured = Undefined
        THEN getAttribute(span, <<"output", "answer", "response", "completion">>)
        ELSE configured,
        LAMBDA response :
    IF IsThrow(response) THEN response
    ELSE IF IsArray(response) /\ Len(response.a) > 0
    THEN IF response.a[1].t = "string" THEN response.a[1] ELSE otelResponseOf(response.a[1])
    ELSE IF IsObjectLike(response) THEN otelResponseOf(response)
    ELSE JString(Or(response, JStr("")))))

\* extractModel(span, mappings)
extractModel(span, mappings) ==
    Let(firstDefined(span, mappings.modelAttributes, 1), LAMBDA model :
    IF model # Undefined THEN JString(model) ELSE JStr("unknown"))

\* extractTokenUsage(span, mappings)
extractTokenUsage(span, mappings) ==
    Let(firstDefined(span, mappings.tokenAttributes.total, 1), LAMBDA total :
    IF total # Undefined THEN ToNum(total)
    ELSE Let(<<firstDefined(span, mappings.tokenAttributes.input, 1),
               firstDefined(span, mappings.tokenAttributes.output, 1)>>, LAMBDA io :
         Plus(IF io[1] # Undefined THEN ToNum(io[1]) ELSE JNum(0),
              IF io[2] # Undefined THEN ToNum(io[2]) ELSE JNum(0))))

\* the chunk extractContextFromRetrievers builds from one document of a span
otelChunk(doc, span) ==
    IF doc.t = "string"
    THEN JObj(<<KV("id", uuidv4), KV("text", doc), KV("source", Get(span, "name")),
                KV("score", JNum(0))>>)
    ELSE Let(Get(doc, "metadata"), LAMBDA metadata :
         MkObj(<<KV("id", JString(Or(Get(doc, "id"), uuidv4))),
                 KV("text", JString(Or(Get(doc, "page_content"),
                                       Or(Get(doc, "content"),
                                          Or(Get(doc, "text"), JStr("")))))),
                 KV("source", JString(Or(Get(doc, "source"),
                                         Or(GetOpt(metadata, "source"),
                                            Get(span, "name"))))),
                 KV("score", ToNum(Or(Get(doc, "score"),
                                      Or(Get(doc, "similarity"), JNum(0))))),
                 KV("metadata", metadata)>>))

\* the chunks extractContextFromRetrievers reads from one span
otelChunksOf(span, mappings) ==
    Let(isRetrieverSpan(span, mappings), LAMBDA retriever :
    IF IsThrow(retriever) THEN retriever
    ELSE IF ~Truthy(retriever) THEN JArr(<<>>)
    ELSE Let(getAttribute(span, <<"documents", "retriever.documents", "docs", "results">>),
             LAMBDA docs :
         IF IsThrow(docs) THEN docs
         ELSE IF IsArray(docs) THEN MkArr([i \in 1..Len(docs.a) |-> otelChunk(docs.a[i], span)])
         ELSE JArr(<<>>)))

\* extractContextFromRetrievers(spans, mappings)
extractContextFromRetrievers(spans, mappings) ==
    Flatten([i \in 1..Len(spans) |-> otelChunksOf(spans[i], mappings)])

Digits == "0123456789"

RECURSIVE digitsValue(_, _, _)
\* the value of the decimal digits of s from position i on, -1 when one is no digit
digitsValue(s, i, acc) ==
    IF i > Len(s) THEN acc
    ELSE IF \E d \in 1..10 : SubSeq(Digits, d, d) = SubSeq(s, i, i)
    THEN digitsValue(s, i + 1,
                     10 * acc + (CHOOSE d \in 1..10 : SubSeq(Digits, d, d) = SubSeq(s, i, i)) - 1)
    ELSE -1

\* BigInt(v): an integer, or the error BigInt raises
BigInt(v) ==
    CASE v.t = "throw" -> v
      [] v.t = "number" -> v
      [] v.t = "boolean" -> JNum(IF v.b THEN 1 ELSE 0)
      [] v.t = "string" /\ v.s = "" -> JNum(0)
      [] v.t = "string" /\ v.s # "" ->
            Let(SubSeq(v.s, 1, 1) = "-" /\ Len(v.s) > 1, LAMBDA neg :
            Let(digitsValue(v.s, IF neg THEN 2 ELSE 1, 0), LAMBDA n :
                IF n < 0 THEN Throw("SyntaxError") ELSE JNum(IF neg THEN 0 - n ELSE n)))
      [] v.t = "NaN" -> Throw("RangeError")
      [] v.t \in {"undefined", "null"} -> TypeError
      [] OTHER -> Throw("SyntaxError")

\* nanoToMs(nano): BigInt division truncates toward zero
nanoToMs(nano) ==
    Let(BigInt(nano), LAMBDA n :
        IF IsThrow(n) THEN n
        ELSE JNum(IF n.n >= 0 THEN n.n \div 1000000 ELSE 0 - ((0 - n.n) \div 1000000)))

\* nanoToIso(nano): the ISO text of a time, kept as its millisecond count
nanoToIso(nano) ==
    Let(nanoToMs(nano), LAMBDA ms : IF IsThrow(ms) THEN ms ELSE JStr("iso@" \o ToString(ms.n)))

\* the whole milliseconds of the nanoseconds elapsed between start and end
calculateLatencyElapsed(span) ==
    Let(BigInt(Get(span, "startTimeUnixNano")), LAMBDA start :
    IF IsThrow(start) THEN JNum(0)
    ELSE Let(BigInt(Get(span, "endTimeUnixNano")), LAMBDA end :
         IF IsThrow(end) THEN JNum(0) ELSE JNum((end.n - start.n) \div 1000000)))

\* calculateLatency(span): 0 when a conversion raises
calculateLatency(span) ==
    Let(nanoToMs(Get(span, "startTimeUnixNano")), LAMBDA startMs :
    IF IsThrow(startMs) THEN JNum(0)
    ELSE Let(nanoToMs(Get(span, "endTimeUnixNano")), LAMBDA endMs :
         IF IsThrow(endMs) THEN JNum(0) ELSE JNum(endMs.n - startMs.n)))

\* the characters of a string, as spreading it yields them
Chars(str) == [i \in 1..Len(str) |-> JStr(SubSeq(str, i, i))]

\* [...v]: the elements of an array, the characters of a string, a TypeError otherwise
Spread(v) ==
    CASE v.t = "throw" -> v
      [] v.t = "array" -> v
      [] v.t = "string" -> JArr(Chars(v.s))
      [] OTHER -> TypeError

\* the spans extractSpans pushes for one element of scopeSpans
spansOfScope(scopeSpan) ==
    Let(Get(scopeSpan, "spans"), LAMBDA spans :
    IF IsThrow(spans) THEN spans
    ELSE IF Truthy(spans) THEN Spread(spans)
    ELSE JArr(<<>>))

\* the spans extractSpans pushes for one element of resourceSpans
spansOfResource(resourceSpan) ==
    Let(Get(resourceSpan, "scopeSpans"), LAMBDA scopeSpans :
    IF IsThrow(scopeSpans) THEN scopeSpans
    ELSE IF ~Truthy(scopeSpans) THEN JArr(<<>>)
    ELSE Let(Spread(scopeSpans), LAMBDA each :
         IF IsThrow(each) THEN each
         ELSE Flatten([i \in 1..Len(each.a) |-> spansOfScope(each.a[i])])))

\* the spans extractSpans pushes for data.resourceSpans
spansOfExport(resourceSpans) ==
    IF ~Truthy(resourceSpans) THEN JArr(<<>>)
    ELSE Let(Spread(resourceSpans), LAMBDA each :
         IF IsThrow(each) THEN each
         ELSE Flatten([i \in 1..Len(each.a) |-> spansOfResource(each.a[i])]))

\* extractSpans(data)
extractSpans(data) ==
    Flatten(<<spansOfExport(Get(data, "resourceSpans")),
              Let(Get(data, "spans"), LAMBDA spans :
                  IF Truthy(spans) THEN Spread(spans) ELSE JArr(<<>>)),
              IF In("spanId", data) /\ In("traceId", data) /\ In("name", data)
              THEN JArr(<<data>>) ELSE JArr(<<>>)>>)

\* the spanId values childMap holds for a span: the spans whose truthy parentSpanId
\* equals its spanId
otelChildren(span, spans) ==
    {Get(spans[i], "spanId") : i \in {j \in 1..Len(spans) :
        /\ Truthy(Get(spans[j], "parentSpanId"))
        /\ Get(spans[j], "parentSpanId") = Get(span, "spanId")}}

\* findLeafLLMSpans(spans, mappings): LLM spans none of whose children is an LLM span
findLeafLLMSpans(spans, mappings) ==
    Let([i \in 1..Len(spans) |-> isLLMSpan(spans[i], mappings)], LAMBDA llm :
    Let(FirstThrow(llm), LAMBDA raised :
    IF IsThrow(raised) THEN raised
    ELSE Let({Get(spans[i], "spanId") : i \in {j \in 1..Len(spans) : Truthy(llm[j])}},
             LAMBDA llmSpanIds :
         Let({i \in 1..Len(spans) :
                 Truthy(llm[i]) /\ otelChildren(spans[i], spans) \cap llmSpanIds = {}},
             LAMBDA leaves :
         JArr(SelectSeq(spans, LAMBDA sp : \E i \in leaves : spans[i] = sp))))))

\* convertSpanToReviewItem(span, contextChunks, mappings, now)
convertSpanToReviewItem(span, contextChunks, mappings) ==
    Let(otelExtractPrompt(span, mappings), LAMBDA extracted :
    Let(otelExtractResponse(span, mappings), LAMBDA response :
    Let(calculateLatency(span), LAMBDA latencyMs :
    Let(nanoToIso(Get(span, "startTimeUnixNano")), LAMBDA iso :
    Let(Get(span, "status"), LAMBDA status :
    MkObj(<<
      KV("id", Or(Get(span, "spanId"), uuidv4)),
      KV("version", JNum(SCHEMA_VERSION)),
      KV("created_at", IF IsThrow(iso) THEN Now ELSE iso),
      KV("updated_at", Now),
      KV("status", JStr("pending")),
      KV("trace_metadata", MkObj(<<
          KV("trace_id", Get(span, "traceId")),
          KV("span_id", Get(span, "spanId")),
          KV("parent_id", Get(span, "parentSpanId")),
          KV("span_type", otelGetSpanType(span, mappings)),
          KV("source", JStr("otel")),
          KV("error", IF GetOpt(status, "code") = JNum(2)
                      THEN Get(status, "message") ELSE Undefined),
          KV("latency_ms", latencyMs),
          KV("original_data", getAttributesObject(span))>>)),
      KV("input", MkObj(<<KV("prompt", Get(extracted, "prompt")),
                          KV("system_prompt", Get(extracted, "systemPrompt")),
                          KV("context_chunks", contextChunks)>>)),
      KV("outputs", IF IsThrow(response) THEN response
                    ELSE IF Truthy(response)
                    THEN MkArr(<<MkObj(<<KV("model_id", extractModel(span, mappings)),
                                         KV("text", response),
                                         KV("token_usage", extractTokenUsage(span, mappings)),
                                         KV("latency_ms", latencyMs)>>)>>)
                    ELSE JArr(<<>>)),
      KV("human_feedback", JObj(<<>>))>>))))))

\* items.length === 1 ? items[0] : items
oneOrAll(items) ==
    IF IsThrow(items) THEN items ELSE IF Len(items.a) = 1 THEN items.a[1] ELSE items

\* spans.map(span => convertSpanToReviewItem(span, contextChunks, mappings, now))
otelConvertAll(spans, contextChunks, mappings) ==
    MkArr([i \in 1..Len(spans) |-> convertSpanToReviewItem(spans[i], contextChunks, mappings)])

\* s => hasPrompt || hasResponse, the filter of llmLikeSpans
otelLLMLike(span, mappings) ==
    \/ firstDefined(span, mappings.promptAttributes, 1) # Undefined
    \/ firstDefined(span, mappings.responseAttributes, 1) # Undefined

\* the spans normalize converts: the leaf LLM spans, else the spans that carry a
\* prompt or a response, else the root spans
otelSpansToConvert(spans, leafLLMSpans, mappings) ==
    IF Len(leafLLMSpans) > 0 THEN leafLLMSpans
    ELSE Let(SelectSeq(spans, LAMBDA sp : otelLLMLike(sp, mappings)), LAMBDA llmLikeSpans :
         IF Len(llmLikeSpans) > 0 THEN llmLikeSpans
         ELSE SelectSeq(spans, LAMBDA sp : ~Truthy(Get(sp, "parentSpanId"))))

\* otelAdapter.normalize(data), with the registry's current mappings
otelNormalize(data, mappings) ==
    Let(IF IsArray(data) THEN data ELSE extractSpans(data), LAMBDA spans :
    IF IsThrow(spans) THEN spans
    ELSE IF Len(spans.a) = 0 THEN JArr(<<>>)
    ELSE Let(extractContextFromRetrievers(spans.a, mappings), LAMBDA contextChunks :
         IF IsThrow(contextChunks) THEN contextChunks
         ELSE Let(findLeafLLMSpans(spans.a, mappings), LAMBDA leafLLMSpans :
              IF IsThrow(leafLLMSpans) THEN leafLLMSpans
              ELSE oneOrAll(otelConvertAll(
                       otelSpansToConvert(spans.a, leafLLMSpans.a, mappings),
                       contextChunks, mappings)))))

-----------------------------------------------------------------------------
(* Generic normalization chain (jsonl.ts) *)

\* isReviewItemFormat(data): raises when data is null
isReviewItemFormat(data) ==
    LET input == Get(data, "input")
    IN  IF IsThrow(input) THEN input
        ELSE JBool(/\ IsObjectLike(input)
                   /\ In("prompt", input)
                   /\ IsArray(Get(data, "outputs")))

\* isOpenAIFormat(data): 'model' in data raises on a primitive
isOpenAIFormat(data) ==
    IF ~IsObjectLike(data) THEN TypeError
    ELSE JBool(In("model", data) /\ In("choices", data) /\ IsArray(Get(data, "choices")))

\* isOpenAIFineTuneFormat(data)
isOpenAIFineTuneFormat(data) ==
    IF ~IsObjectLike(data) THEN TypeError
    ELSE JBool(In("messages", data) /\ IsArray(Get(data, "messages")))

\* isGenericFormat(data)
isGenericFormat(data) ==
    IF ~IsObjectLike(data) THEN TypeError
    ELSE JBool(/\ In("prompt", data) \/ In("question", data) \/ In("input", data)
               /\ \/ In("response", data) \/ In("answer", data)
                  \/ In("output", data) \/ In("completion", data))

\* a pass-through that issues a fresh id whether or not the record has one
passThroughFreshId(data) ==
    SetKey(SetKey(SetKey(SetKey(SetKey(data,
        "id", uuidv4),
        "version", JNum(SCHEMA_VERSION)),
        "created_at", Or(Get(data, "created_at"), Now)),
        "updated_at", Now),
        "status", Or(Get(data, "status"), JStr("pending")))

\* a pass-through that resets the status of the record
passThroughPending(data) ==
    SetKey(SetKey(SetKey(SetKey(SetKey(data,
        "id", Or(Get(data, "id"), uuidv4)),
        "version", JNum(SCHEMA_VERSION)),
        "created_at", Or(Get(data, "created_at"), Now)),
        "updated_at", Now),
        "status", JStr("pending"))

\* the pass-through branch of normalizeToReviewItem
passThrough(data) ==
    SetKey(SetKey(SetKey(SetKey(SetKey(data,
        "id", Or(Get(data, "id"), uuidv4)),
        "version", JNum(SCHEMA_VERSION)),
        "created_at", Or(Get(data, "created_at"), Now)),
        "updated_at", Now),
        "status", Or(Get(data, "status"), JStr("pending")))

\* one output of convertOpenAIFormat
openAIOutput(data, choice, index) ==
    MkObj(<<KV("model_id", JString(Or(Get(data, "model"), JStr("model_" \o ToString(index))))),
            KV("text", Or(GetOpt(Get(choice, "message"), "content"),
                          Or(Get(choice, "text"), JStr("")))),
            KV("token_usage", ToNum(Or(GetOpt(Get(data, "usage"), "total_tokens"), JNum(0)))),
            KV("latency_ms", JNum(0))>>)

\* convertOpenAIFormat(data, now)
convertOpenAIFormat(data) ==
    LET choices == Get(data, "choices").a
    IN  MkObj(<<
          KV("id", uuidv4),
          KV("version", JNum(SCHEMA_VERSION)),
          KV("created_at", Now),
          KV("updated_at", Now),
          KV("status", JStr("pending")),
          KV("input", MkObj(<<KV("prompt", JString(Or(Get(data, "prompt"), JStr("")))),
                              KV("context_chunks", JArr(<<>>))>>)),
          KV("outputs", MkArr([i \in 1..Len(choices) |-> openAIOutput(data, choices[i], i - 1)])),
          KV("human_feedback", JObj(<<>>))>>)

\* a context chunk built from an object of a context array; scoreKeys are the
\* fields read for the score and textKeys those read for the text, in order
RECURSIVE FirstTruthy(_, _, _, _)
FirstTruthy(obj, keys, i, default) ==
    IF i > Len(keys) THEN default
    ELSE Or(Get(obj, keys[i]), FirstTruthy(obj, keys, i + 1, default))

genericChunk(chunk, textKeys, scoreKeys) ==
    LET metadata == Get(chunk, "metadata")
    IN  MkObj(<<KV("id", JString(Or(Get(chunk, "id"), uuidv4))),
                KV("text", JString(FirstTruthy(chunk, textKeys, 1, JStr("")))),
                KV("source", JString(Or(Get(chunk, "source"),
                                        Or(GetOpt(metadata, "source"), JStr("unknown"))))),
                KV("score", ToNum(FirstTruthy(chunk, scoreKeys, 1, JNum(0)))),
                KV("metadata", metadata)>>)

\* convertOpenAIFineTuneFormat(data, now)
convertOpenAIFineTuneFormat(data) ==
    LET messages == Get(data, "messages").a
        systemMessage == FindRole(messages, "system")
        userMessage == FindRole(messages, "user")
        assistantMessage == FindRole(messages, "assistant")
        raised == FirstThrow(<<systemMessage, userMessage, assistantMessage>>)
        context == Get(data, "context")
        contextChunks ==
            IF Truthy(context) /\ IsArray(context)
            THEN MkArr([i \in 1..Len(context.a) |->
                          genericChunk(context.a[i], <<"text", "content">>,
                                       <<"score", "similarity">>)])
            ELSE JArr(<<>>)
    IN  IF IsThrow(raised) THEN raised
        ELSE MkObj(<<
          KV("id", uuidv4),
          KV("version", JNum(SCHEMA_VERSION)),
          KV("created_at", Now),
          KV("updated_at", Now),
          KV("status", JStr("pending")),
          KV("input", MkObj(<<KV("prompt", Or(GetOpt(userMessage, "content"), JStr(""))),
                              KV("system_prompt", GetOpt(systemMessage, "content")),
                              KV("context_chunks", contextChunks)>>)),
          KV("outputs", IF Truthy(assistantMessage)
                        THEN MkArr(<<MkObj(<<
                               KV("model_id", JString(Or(Get(data, "model"), JStr("assistant")))),
                               KV("text", Get(assistantMessage, "content")),
                               KV("token_usage", JNum(0)),
                               KV("latency_ms", JNum(0))>>)>>)
                        ELSE JArr(<<>>)),
          KV("human_feedback", JObj(<<>>))>>)

\* a chunk convertGenericFormat builds from an element of the context field
genericContextChunk(chunk) ==
    IF chunk.t = "string"
    THEN JObj(<<KV("id", uuidv4), KV("text", chunk), KV("source", JStr("document")),
                KV("score", JNum(0))>>)
    ELSE genericChunk(chunk, <<"text", "content", "page_content">>,
                      <<"score", "similarity", "relevance_score">>)

\* convertGenericFormat(data, now)
convertGenericFormat(data) ==
    LET input == Get(data, "input")
        nested == IsObjectLike(input) /\ In("prompt", input)
        prompt == IF nested THEN JString(Or(Get(input, "prompt"), JStr("")))
                  ELSE JString(Or(Get(data, "prompt"),
                                  Or(Get(data, "question"), Or(input, JStr("")))))
        systemPrompt == IF nested THEN Get(input, "system_prompt")
                        ELSE Get(data, "system_prompt")
        inputChunks == Get(input, "context_chunks")
        inputContextChunks ==
            IF nested /\ Truthy(inputChunks) /\ IsArray(inputChunks)
            THEN MkArr([i \in 1..Len(inputChunks.a) |->
                          genericChunk(inputChunks.a[i], <<"text", "content">>,
                                       <<"score", "similarity", "relevance_score">>)])
            ELSE JArr(<<>>)
        response == JString(Or(Get(data, "response"),
                               Or(Get(data, "answer"),
                                  Or(Get(data, "output"),
                                     Or(Get(data, "completion"), JStr(""))))))
        contextField == Or(Get(data, "context"),
                           Or(Get(data, "contexts"),
                              Or(Get(data, "documents"), Get(data, "chunks"))))
        fieldChunks ==
            IF IsArray(contextField)
            THEN MkArr([i \in 1..Len(contextField.a) |-> genericContextChunk(contextField.a[i])])
            ELSE JArr(<<>>)
        contextChunks == Flatten(<<inputContextChunks, fieldChunks>>)
    IN  MkObj(<<
          KV("id", JString(Or(Get(data, "id"), uuidv4))),
          KV("version", JNum(SCHEMA_VERSION)),
          KV("created_at", JString(Or(Get(data, "created_at"), Now))),
          KV("updated_at", Now),
          KV("status", JStr("pending")),
          KV("tags", IF IsArray(Get(data, "tags")) THEN Get(data, "tags") ELSE Undefined),
          KV("input", MkObj(<<KV("prompt", prompt),
                              KV("system_prompt", systemPrompt),
                              KV("context_chunks", contextChunks)>>)),
          KV("outputs", MkArr(<<MkObj(<<
                KV("model_id", JString(Or(Get(data, "model"),
                                          Or(Get(data, "model_id"), JStr("default"))))),
                KV("text", response),
                KV("token_usage", ToNum(Or(Get(data, "tokens"),
                                           Or(Get(data, "token_usage"), JNum(0))))),
                KV("latency_ms", ToNum(Or(Get(data, "latency"),
                                          Or(Get(data, "latency_ms"), JNum(0)))))>>)>>)),
          KV("human_feedback", JObj(<<>>))>>)

\* Object.entries(data) of an object or an array: the values, in order
EntryValues(data) == IF IsArray(data) THEN data.a ELSE [i \in 1..Len(data.kv) |-> data.kv[i].v]

\* convertBestEffort(data, now)
convertBestEffort(data) ==
    LET textFields == SelectSeq(EntryValues(data), LAMBDA v : v.t = "string" /\ Len(v.s) > 10)
        prompt == IF Len(textFields) >= 1 THEN textFields[1] ELSE JSONstringify(data)
        response == IF Len(textFields) >= 2 THEN textFields[2] ELSE JStr("")
    IN  MkObj(<<
          KV("id", uuidv4),
          KV("version", JNum(SCHEMA_VERSION)),
          KV("created_at", Now),
          KV("updated_at", Now),
          KV("status", JStr("pending")),
          KV("input", MkObj(<<KV("prompt", prompt), KV("context_chunks", JArr(<<>>))>>)),
          KV("outputs", IF Truthy(response)
                        THEN JArr(<<JObj(<<KV("model_id", JStr("unknown")),
                                           KV("text", response),
                                           KV("token_usage", JNum(0)),
                                           KV("latency_ms", JNum(0))>>)>>)
                        ELSE JArr(<<>>)),
          KV("human_feedback", JObj(<<>>))>>)

\* normalizeToReviewItem(data, lineNumber): a record, or the exception raised
normalizeToReviewItem(data) ==
    LET reviewItem == isReviewItemFormat(data)
        openAI == isOpenAIFormat(data)
        fineTune == isOpenAIFineTuneFormat(data)
        generic == isGenericFormat(data)
    IN  IF IsThrow(reviewItem) THEN reviewItem
        ELSE IF Truthy(reviewItem) THEN passThrough(data)
        ELSE IF IsThrow(openAI) THEN openAI
        ELSE IF Truthy(openAI) THEN convertOpenAIFormat(data)
        ELSE IF Truthy(fineTune) THEN convertOpenAIFineTuneFormat(data)
        ELSE IF Truthy(generic) THEN convertGenericFormat(data)
        ELSE convertBestEffort(data)

-----------------------------------------------------------------------------
(* Import orchestrator (jsonl.ts) *)

MAX_FILE_SIZE == 50 * 1024 * 1024

\* adapter.normalize(data)
Normalize(adapter, data, mappings) ==
    IF adapter.impl = "langsmith" THEN langSmithNormalize(data) ELSE otelNormalize(data, mappings)

\* Array.isArray(result) ? result : [result]
AsList(result) == IF IsArray(result) THEN result.a ELSE <<result>>

\* an ImportResult
ImportResult(success, items, errors) ==
    [t |-> "result", success |-> success, itemsImported |-> Len(items),
     items |-> items, errors |-> errors]

ImportError(line, message) == [line |-> line, message |-> message]

\* the text of a file is its lines.  A line is blank (empty or white space), the
\* text of one JSON value, or text that JSON.parse rejects and that is no part
\* of a JSON document spread over several lines.
BlankLine == [kind |-> "blank", value |-> Undefined]
InvalidLine == [kind |-> "invalid", value |-> Undefined]
JsonLine(v) == [kind |-> "json", value |-> v]

\* JSON.parse(line)
JSONparse(line) == IF line.kind = "json" THEN line.value ELSE Throw("SyntaxError")

\* text.split('\n').filter(line => line.trim())
nonBlankLines(lines) == SelectSeq(lines, LAMBDA l : l.kind # "blank")

\* JSON.parse(text.trim()) guarded by startsWith('{') || startsWith('['): the
\* parsed document, or undefined when the payload goes on to the line parser
parseWhole(lines) ==
    LET rest == nonBlankLines(lines)
    IN  IF Len(rest) = 1 /\ rest[1].kind = "json" /\ IsObjectLike(rest[1].value)
        THEN rest[1].value
        ELSE Undefined

RECURSIVE parseItemsFrom(_, _, _, _)
\* the item-by-item loop of parseJsonData from index i (0-based) on
parseItemsFrom(data, i, items, errors) ==
    IF i >= Len(data)
    THEN [items |-> items, errors |-> errors]
    ELSE Let(normalizeToReviewItem(data[i + 1]), LAMBDA item :
             IF IsThrow(item)
             THEN parseItemsFrom(data, i + 1, items, Append(errors, ImportError(i + 1, item.m)))
             ELSE parseItemsFrom(data, i + 1, Append(items, item), errors))

\* the result parseJsonData returns after its item-by-item processing
itemsResult(each) ==
    ImportResult(Len(each.errors) = 0 \/ Len(each.items) > 0, each.items, each.errors)

\* parseJsonData after the adapter attempt: an array the LangSmith adapter
\* detects and normalizes, else every element of an array, or the one object
parseWithoutAdapter(as, mappings, data, errors) ==
    IF IsArray(data)
    THEN Let(registryGet(as, "langsmith"), LAMBDA langSmith :
         Let(IF langSmith = Undefined THEN Undefined ELSE Detect(langSmith, data),
             LAMBDA lsDetect :
         IF IsThrow(lsDetect) THEN lsDetect
         ELSE Let(IF Truthy(lsDetect) THEN Normalize(langSmith, data, mappings) ELSE Undefined,
                  LAMBDA lsResult :
              IF Truthy(lsDetect) /\ ~IsThrow(lsResult)
              THEN ImportResult(TRUE, AsList(lsResult), <<>>)
              ELSE itemsResult(parseItemsFrom(data.a, 0, <<>>, errors)))))
    ELSE IF IsObjectLike(data)
    THEN itemsResult(parseItemsFrom(<<data>>, 0, <<>>, errors))
    ELSE ImportResult(Len(errors) = 0, <<>>, errors)

\* parseJsonData(data): an ImportResult, or the exception detectAdapter raised
parseJsonData(as, mappings, data) ==
    Let(detectAdapter(as, data), LAMBDA adapter :
    IF IsThrow(adapter) THEN adapter
    ELSE IF adapter = Undefined THEN parseWithoutAdapter(as, mappings, data, <<>>)
    ELSE Let(Normalize(adapter, data, mappings), LAMBDA result :
         IF ~IsThrow(result) THEN ImportResult(TRUE, AsList(result), <<>>)
         ELSE parseWithoutAdapter(as, mappings, data,
                  <<ImportError(0, adapter.name \o " adapter error: " \o result.m)>>)))

\* what one line yields inside the try of parseJsonlLines: the items to push,
\* or the exception raised
lineItems(as, mappings, line) ==
    Let(JSONparse(line), LAMBDA parsed :
    IF IsThrow(parsed) THEN parsed
    ELSE Let(detectAdapter(as, parsed), LAMBDA adapter :
         IF IsThrow(adapter) THEN adapter
         ELSE IF adapter # Undefined
         THEN Let(Normalize(adapter, parsed, mappings), LAMBDA result :
                  IF IsThrow(result) THEN result ELSE JArr(AsList(result)))
         ELSE Let(normalizeToReviewItem(parsed), LAMBDA item :
                  IF IsThrow(item) THEN item ELSE JArr(<<item>>))))

\* the body of the loop of parseJsonlLines for one line: what it appends to
\* items and to errors
parseLine(as, mappings, line, lineNumber) ==
    Let(lineItems(as, mappings, line), LAMBDA produced :
        IF IsThrow(produced)
        THEN [items |-> <<>>, errors |-> <<ImportError(lineNumber, produced.m)>>]
        ELSE [items |-> produced.a, errors |-> <<>>])

RECURSIVE parseLinesUntilError(_, _, _, _, _, _, _)
\* a line loop that gives up at the first error: the lines after it yield nothing
parseLinesUntilError(as, mappings, lines, i, items, errors, cuts) ==
    IF i >= Len(lines)
    THEN [items |-> items, errors |-> errors, cuts |-> cuts]
    ELSE LET out == IF Len(errors) > 0 THEN [items |-> <<>>, errors |-> <<>>]
                    ELSE parseLine(as, mappings, lines[i + 1], i + 1)
         IN  parseLinesUntilError(as, mappings, lines, i + 1, items \o out.items,
                                  errors \o out.errors,
                                  Append(cuts, [items |-> Len(items \o out.items),
                                                errors |-> Len(errors \o out.errors)]))

RECURSIVE parseLinesFrom(_, _, _, _, _, _, _)
\* the loop of parseJsonlLines from index i (0-based) on; cuts records the
\* lengths of items and errors after each line
parseLinesFrom(as, mappings, lines, i, items, errors, cuts) ==
    IF i >= Len(lines)
    THEN [items |-> items, errors |-> errors, cuts |-> cuts]
    ELSE Let(parseLine(as, mappings, lines[i + 1], i + 1), LAMBDA out :
         Let(<<items \o out.items, errors \o out.errors>>, LAMBDA acc :
             parseLinesFrom(as, mappings, lines, i + 1, acc[1], acc[2],
                            Append(cuts, [items |-> Len(acc[1]), errors |-> Len(acc[2])]))))

\* parseJsonlLines(text), with the cuts of its loop
parseJsonlLines(as, mappings, lines) ==
    Let(parseLinesFrom(as, mappings, nonBlankLines(lines), 0, <<>>, <<>>, <<>>), LAMBDA out :
        [result |-> ImportResult(Len(out.errors) = 0 \/ Len(out.items) > 0, out.items, out.errors),
         cuts |-> out.cuts])

\* a size gate that also rejects a file of exactly the limit
tooLargeInclusive(file) == file.size >= MAX_FILE_SIZE

\* the size gate of parseJsonlFile
tooLarge(file) == file.size > MAX_FILE_SIZE

sizeLimitResult ==
    ImportResult(FALSE, <<>>,
        <<ImportError(0, "File size exceeds " \o ToString((MAX_FILE_SIZE \div 1024) \div 1024)
                         \o "MB limit")>>)

\* parseJsonlFile without the try around parseJsonData: what parseJsonData
\* raises is raised by parseJsonlFile
parseTextUnguarded(as, mappings, lines) ==
    Let(parseWhole(lines), LAMBDA parsed :
    Let(IF parsed = Undefined THEN Undefined ELSE parseJsonData(as, mappings, parsed),
        LAMBDA whole :
    IF whole # Undefined
    THEN [mode |-> "document", result |-> whole, cuts |-> <<>>]
    ELSE Let(parseJsonlLines(as, mappings, lines), LAMBDA out :
             [mode |-> "lines", result |-> out.result, cuts |-> out.cuts])))

\* parseJsonlFile after file.text() resolved: the whole document when it parses
\* and parseJsonData returns, else the line parser
parseText(as, mappings, lines) ==
    Let(parseWhole(lines), LAMBDA parsed :
    Let(IF parsed = Undefined THEN Undefined ELSE parseJsonData(as, mappings, parsed),
        LAMBDA whole :
    IF whole # Undefined /\ ~IsThrow(whole)
    THEN [mode |-> "document", result |-> whole, cuts |-> <<>>]
    ELSE Let(parseJsonlLines(as, mappings, lines), LAMBDA out :
             [mode |-> "lines", result |-> out.result, cuts |-> out.cuts])))

-----------------------------------------------------------------------------
(* The review store (review-store.ts) and its table (db.ts) *)

\* the primary keys of the rows, in the order of the index
KeyOrder == <<"a", "b">>

\* the statuses getStatusCounts counts, in the order it counts them
statuses == <<"pending", "approved", "rejected", "modified">>

defaultFilters == [status |-> "all"]

defaultStats == [total |-> 0, pending |-> 0, approved |-> 0, rejected |-> 0, modified |-> 0]

\* the state useReviewStore is created with
initialStore ==
    [items |-> <<>>, selectedItemId |-> Null, selectedIds |-> {}, filters |-> defaultFilters,
     stats |-> defaultStats, isLoading |-> FALSE, error |-> Null]

\* no async action in flight
NoCall == [op |-> "none"]

\* the table is empty, the store as created, nothing in flight
StoreClosed ==
    /\ db = <<>>
    /\ store = initialStore
    /\ inFlight = <<>>

idOf(row) == Get(row, "id").s

idsOf(rows) == {idOf(rows[i]) : i \in 1..Len(rows)}

RECURSIVE inKeyOrderFrom(_, _)
inKeyOrderFrom(rows, k) ==
    IF k > Len(KeyOrder) THEN <<>>
    ELSE SelectSeq(rows, LAMBDA row : idOf(row) = KeyOrder[k]) \o inKeyOrderFrom(rows, k + 1)

\* the rows as the primary index holds them
inKeyOrder(rows) == inKeyOrderFrom(rows, 1)

\* db.reviewItems.get(id)
dbGetItem(table, id) ==
    IF id \in idsOf(table)
    THEN table[CHOOSE i \in 1..Len(table) : idOf(table[i]) = id]
    ELSE Undefined

RECURSIVE assign(_, _)
assign(row, changes) ==
    IF changes = <<>> THEN row
    ELSE assign(SetKey(row, changes[1].k, changes[1].v), Tail(changes))

\* db.reviewItems.update(id, changes): no row with the key, nothing written
tableUpdate(table, id, changes) ==
    [i \in 1..Len(table) |-> IF idOf(table[i]) = id THEN assign(table[i], changes) ELSE table[i]]

\* db.reviewItems.where('status').equals(status).count()
countByStatus(table, status) ==
    Cardinality({i \in 1..Len(table) : Get(table[i], "status") = JStr(status)})

\* dbOperations.updateStatus
dbUpdateStatus(table, id, status) ==
    tableUpdate(table, id, <<KV("status", JStr(status)), KV("updated_at", Now)>>)

\* dbOperations.bulkUpdateStatus
dbBulkUpdateStatus(table, ids, status) ==
    [i \in 1..Len(table) |->
        IF idOf(table[i]) \in ids
        THEN assign(table[i], <<KV("status", JStr(status)), KV("updated_at", Now)>>)
        ELSE table[i]]

\* the write of updateContextChunks that marks every item modified
markModified(table, item, id, contextChunks) ==
    tableUpdate(table, id,
        <<KV("input", SetKey(Get(item, "input"), "context_chunks", contextChunks)),
          KV("status", JStr("modified")),
          KV("updated_at", Now)>>)

\* dbOperations.updateContextChunks from the resolution of get(id), for the
\* item it returned
dbUpdateContextChunks(table, item, id, contextChunks) ==
    tableUpdate(table, id,
        <<KV("input", SetKey(Get(item, "input"), "context_chunks", contextChunks)),
          KV("status", IF Get(item, "status") = JStr("pending")
                       THEN JStr("modified") ELSE Get(item, "status")),
          KV("updated_at", Now)>>)

\* dbOperations.deleteItems
dbDeleteItems(table, ids) == SelectSeq(table, LAMBDA row : idOf(row) \notin ids)

\* dbOperations.addItems: bulkAdd raises when a key is stored already or given twice
addItemsRaises(table, items) ==
    \/ idsOf(items) \cap idsOf(table) # {}
    \/ Cardinality(idsOf(items)) # Len(items)

dbAddItems(table, items) == inKeyOrder(table \o items)

\* getFilteredItems for the filters the store holds (status only)
getFilteredItems(st) ==
    IF st.filters.status # "all"
    THEN SelectSeq(st.items, LAMBDA item : Get(item, "status") = JStr(st.filters.status))
    ELSE st.items

\* loadItems up to its first await
loadItemsBegin(st) == [st EXCEPT !.isLoading = TRUE, !.error = Null]

\* a loadItems call that waits for getAllItems
Loading == [op |-> "loadItems", pc |-> "getAllItems", items |-> <<>>, counts |-> <<>>]

\* the stats loadItems sets from the counts of getStatusCounts
statsOf(counts) ==
    [total |-> counts[5], pending |-> counts[1], approved |-> counts[2],
     rejected |-> counts[3], modified |-> counts[4]]

\* parseJsonlFile(file) from call to return
parseJsonlFile(as, mappings, file) ==
    IF tooLarge(file) THEN sizeLimitResult ELSE parseText(as, mappings, file.lines).result

-----------------------------------------------------------------------------
(* Calls and their outcomes *)

\* no call made yet
Idle == [call |-> "none"]

\* the outcome of adapter.detect(probe), of registry.detectAdapter(probe) and
\* of adapter.normalize(probe)
DetectOutcome(adapter, out) == [call |-> "detect", adapter |-> adapter, out |-> out]
DetectAdapterOutcome(out) == [call |-> "detectAdapter", out |-> out]
NormalizeOutcome(adapter, out) == [call |-> "normalize", adapter |-> adapter, out |-> out]

\* short builders for parsed JSON objects
Obj1(k1, v1) == JObj(<<KV(k1, v1)>>)
Obj2(k1, v1, k2, v2) == JObj(<<KV(k1, v1), KV(k2, v2)>>)
Obj3(k1, v1, k2, v2, k3, v3) == JObj(<<KV(k1, v1), KV(k2, v2), KV(k3, v3)>>)
Obj4(k1, v1, k2, v2, k3, v3, k4, v4) ==
    JObj(<<KV(k1, v1), KV(k2, v2), KV(k3, v3), KV(k4, v4)>>)
EmptyObj == JObj(<<>>)

-----------------------------------------------------------------------------
(* Specification SpecRegistry: an adapter registry under register and detectAdapter *)

MaxRegs == 3

\* the adapters handed to register: the two shipped adapters, and adapters that
\* carry a name of TraceSource with either detect function
AdapterPool ==
    {Adapter(name, impl) : name \in {"langsmith", "otel", "langfuse"},
                           impl \in {"langsmith", "otel"}}

\* values handed to detectAdapter: one both detectors accept, one only the
\* LangSmith detector accepts, one only the OTel detector accepts, one neither
\* accepts, and two on which the OTel detector raises
BothFormats == Obj4("id", JStr("1"), "name", JStr("llm"), "traceId", JStr("t"), "spanId", JStr("s"))
RunOnly == Obj3("run_id", JStr("r1"), "inputs", EmptyObj, "outputs", EmptyObj)
SpansOnly == Obj1("resourceSpans", JArr(<<>>))
NoFormat == Obj2("prompt", JStr("Hello"), "response", JStr("World"))
NullSpans == Obj1("spans", JArr(<<Null>>))
RunWithNullSpans == Obj3("id", JStr("1"), "name", JStr("x"), "spans", JArr(<<Null>>))

RegistryProbes == {BothFormats, RunOnly, SpansOnly, NoFormat, NullSpans, RunWithNullSpans}

InitRegistry ==
    /\ StoreClosed
    /\ adapters = <<>>
    /\ otelMappings = DEFAULT_OTEL_MAPPINGS
    /\ regLog = <<>>
    /\ probe \in RegistryProbes
    /\ detected = Idle
    /\ normalized = Idle
    /\ job = <<>>

\* adapterRegistry.register(adapter)
RegisterCall(adapter) ==
    /\ Len(regLog) < MaxRegs
    /\ adapters' = register(adapters, adapter)
    /\ regLog' = Append(regLog, adapter)
    /\ detected' = Idle
    /\ UNCHANGED <<otelMappings, probe, normalized, job, db, store, inFlight>>

\* adapterRegistry.detectAdapter(probe)
DetectAdapterCall ==
    /\ detected' = DetectAdapterOutcome(detectAdapter(adapters, probe))
    /\ UNCHANGED <<adapters, otelMappings, regLog, probe, normalized, job, db, store, inFlight>>

NextRegistry ==
    \/ \E adapter \in AdapterPool : RegisterCall(adapter)
    \/ DetectAdapterCall

SpecRegistry == InitRegistry /\ [][NextRegistry]_vars

\* the last adapter registered under a name
LastNamed(log, name) ==
    log[CHOOSE i \in 1..Len(log) :
          log[i].name = name /\ \A j \in (i + 1)..Len(log) : log[j].name # name]

\* the positions of a registration log at which a name is registered for the first time
FirstUses(log) == {i \in 1..Len(log) : \A j \in 1..(i - 1) : log[j].name # log[i].name}

\* C7 (as the code has it): detectAdapter goes through the names in the order
\* in which they were first registered, each name standing for the adapter
\* registered last under it, and returns the first adapter whose detect is
\* true; it raises when a detect raises before any is true and returns
\* undefined when none is true.  With the orchestrator's registration
\* (LangSmith, then OTel) a value both detectors accept goes to LangSmith.
C7_FirstHeldMatch ==
    detected.call = "detectAdapter" =>
        LET held(i) == LastNamed(regLog, regLog[i].name)
            out(i) == Detect(held(i), probe)
            stops == {i \in FirstUses(regLog) : IsThrow(out(i)) \/ Truthy(out(i))}
        IN  /\ stops = {} => detected.out = Undefined
            /\ stops # {} =>
                  LET i == CHOOSE j \in stops : \A k \in stops : j <= k
                  IN  detected.out = (IF IsThrow(out(i)) THEN out(i) ELSE held(i))
            /\ (regLog = <<langSmithAdapter, otelAdapter>> /\ probe = BothFormats)
                  => detected.out = langSmithAdapter

\* C7 witness: a name was registered twice with different adapters and detectAdapter
\* returned the later one, in the earlier one's place
C7_Witness ==
    /\ detected.call = "detectAdapter"
    /\ Len(regLog) = 3
    /\ regLog[1].name = regLog[3].name
    /\ regLog[1] # regLog[3]
    /\ regLog[2].name # regLog[1].name
    /\ Truthy(Detect(regLog[2], probe))
    /\ detected.out = regLog[3]

\* C7 as stated: detectAdapter returns the adapter that comes first in
\* registration order among those whose detect is true, undefined when none is
\* (values on which a detect raises set aside)
C7_FirstRegisteredMatch ==
    (/\ detected.call = "detectAdapter"
     /\ \A i \in 1..Len(regLog) : ~IsThrow(Detect(regLog[i], probe))) =>
        LET matches == {i \in 1..Len(regLog) : Truthy(Detect(regLog[i], probe))}
        IN  IF matches = {} THEN detected.out = Undefined
            ELSE detected.out = regLog[CHOOSE i \in matches : \A k \in matches : i <= k]

-----------------------------------------------------------------------------
(* Specification SpecAdapters: detect and normalize of the two shipped adapters *)

MaxDepth == 4

\* objects around the run detector: with or without an id key, an inputs or
\* outputs key (outputs an object or an array), a run_type or name key, and an
\* input object (canonical: prompt and context_chunks; or prompt alone)
RunShape(idKey, io, rt, inp) ==
    JObj((IF idKey = "none" THEN <<>> ELSE <<KV(idKey, JStr("r1"))>>)
         \o (CASE io = "inputs" -> <<KV("inputs", EmptyObj)>>
               [] io = "outputs" -> <<KV("outputs", EmptyObj)>>
               [] io = "outputsArray" -> <<KV("outputs", JArr(<<>>))>>
               [] OTHER -> <<>>)
         \o (CASE rt = "run_type" -> <<KV("run_type", JStr("llm"))>>
               [] rt = "name" -> <<KV("name", JStr("x"))>>
               [] OTHER -> <<>>)
         \o (CASE inp = "canonical" ->
                    <<KV("input", Obj2("prompt", JStr("p"), "context_chunks", JArr(<<>>)))>>
               [] inp = "prompt" -> <<KV("input", Obj1("prompt", JStr("p")))>>
               [] OTHER -> <<>>))

RunShapes ==
    {RunShape(idKey, io, rt, inp) :
        idKey \in {"none", "id", "run_id"},
        io \in {"none", "inputs", "outputs", "outputsArray"},
        rt \in {"none", "run_type", "name"},
        inp \in {"none", "canonical", "prompt"}}

ARun == RunShape("run_id", "inputs", "none", "none")
NamedRun == RunShape("id", "none", "name", "none")
NotARun == RunShape("none", "inputs", "none", "none")

\* arrays handed to the export detector
RunArrays ==
    {JArr(<<>>), JArr(<<ARun>>), JArr(<<ARun, NamedRun>>), JArr(<<ARun, NotARun>>),
     JArr(<<NotARun>>), JArr(<<Null>>), JArr(<<JNum(1)>>), JArr(<<ARun, Null>>)}

\* containers: a runs field, a run field, and runs that carry such fields themselves
ExportShapes ==
    {Obj1("runs", a) : a \in RunArrays}
    \cup {SetKey(NamedRun, "runs", a) : a \in RunArrays}
    \cup {Obj1("run", ARun), Obj1("run", NotARun), Obj1("run", Null),
          Obj1("runs", JStr("r")), SetKey(NamedRun, "runs", JStr("r")),
          SetKey(NamedRun, "run", NotARun), SetKey(NamedRun, "run", ARun),
          SetKey(Obj1("runs", JArr(<<>>)), "run", ARun),
          SetKey(Obj1("runs", JArr(<<NotARun>>)), "run", ARun)}

ASpan == Obj2("traceId", JStr("t"), "spanId", JStr("s1"))

\* objects around the OTel detector
SpanShapes ==
    {Obj1("resourceSpans", JArr(<<>>)), Obj1("resourceSpans", JStr("x")),
     Obj1("spans", JArr(<<>>)), Obj1("spans", JArr(<<ASpan>>)),
     Obj1("spans", JArr(<<Obj1("traceId", JStr("t"))>>)),
     Obj1("spans", JArr(<<Null>>)), Obj1("spans", JArr(<<JNum(1)>>)),
     Obj1("spans", JArr(<<JStr("s")>>)), Obj1("spans", JArr(<<ASpan, Null>>)),
     Obj1("spans", JArr(<<JArr(<<>>)>>)),
     ASpan, SetKey(ASpan, "name", JStr("llm")), BothFormats, RunWithNullSpans}

Scalars == {Null, JStr("text"), JStr(""), JNum(0), JNum(7), JBool(TRUE), JBool(FALSE)}

DetectProbes == RunShapes \cup RunArrays \cup ExportShapes \cup SpanShapes \cup Scalars

\* how the units of a trace are typed: an LLM call or a chain step
UnitTypes == {"llm", "chain"}

\* the type of each unit along a path from the root, for every depth up to MaxDepth
TypePaths == UNION {[1..n -> UnitTypes] : n \in 1..MaxDepth}

\* a LangSmith run with its own prompt and answer; a run without children has no child_runs
LsRun(id, type, children) ==
    JObj(<<KV("id", JStr(id)), KV("run_type", JStr(type)),
           KV("inputs", Obj1("prompt", JStr("q-" \o id))),
           KV("outputs", Obj1("output", JStr("a-" \o id)))>>
         \o (IF children = <<>> THEN <<>> ELSE <<KV("child_runs", JArr(children))>>))

RECURSIVE LsChain(_, _)
\* the run tree in which every run has one child, typed along ts from depth d on
LsChain(ts, d) ==
    LsRun("n" \o ToString(d), ts[d], IF d < Len(ts) THEN <<LsChain(ts, d + 1)>> ELSE <<>>)

\* a root with two children, the first of which has a child
LsFork(ts) ==
    LsRun("n1", ts[1], <<LsRun("n2", ts[2], <<LsRun("n4", ts[4], <<>>)>>),
                         LsRun("n3", ts[3], <<>>)>>)

LangSmithTrees ==
    {LsChain(ts, 1) : ts \in TypePaths} \cup {LsFork(ts) : ts \in [1..4 -> UnitTypes]}

\* an OTel span with its own prompt and answer when it is an LLM call
OtelSpan(id, parent, type) ==
    JObj(<<KV("traceId", JStr("t")), KV("spanId", JStr(id))>>
         \o (IF parent = "" THEN <<>> ELSE <<KV("parentSpanId", JStr(parent))>>)
         \o <<KV("name", JStr(IF type = "llm" THEN "llm.chat" ELSE "chain.step")),
              KV("attributes",
                 IF type = "llm"
                 THEN JArr(<<Obj2("key", JStr("gen_ai.prompt"),
                                  "value", Obj1("stringValue", JStr("q-" \o id))),
                             Obj2("key", JStr("gen_ai.completion"),
                                  "value", Obj1("stringValue", JStr("a-" \o id)))>>)
                 ELSE JArr(<<>>))>>)

\* the span list in which every span has one child, typed along ts
OtelChain(ts) ==
    [d \in 1..Len(ts) |->
        OtelSpan("s" \o ToString(d), IF d = 1 THEN "" ELSE "s" \o ToString(d - 1), ts[d])]

\* a root with two children, the first of which has a child
OtelFork(ts) ==
    <<OtelSpan("s1", "", ts[1]), OtelSpan("s2", "s1", ts[2]),
      OtelSpan("s3", "s1", ts[3]), OtelSpan("s4", "s2", ts[4])>>

\* span lists in export order and in reverse order
OtelSpanLists ==
    LET lists == {OtelChain(ts) : ts \in TypePaths} \cup {OtelFork(ts) : ts \in [1..4 -> UnitTypes]}
    IN  {Obj1("spans", JArr(l)) : l \in lists} \cup {Obj1("spans", JArr(Reverse(l))) : l \in lists}

\* a retrieved document, and a retriever run that returns two of them
Document(name, score) ==
    Obj3("page_content", JStr("p-" \o name), "metadata", Obj1("source", JStr("s-" \o name)),
         "score", JNum(score))
LsRetriever(id, children) ==
    JObj(<<KV("id", JStr(id)), KV("run_type", JStr("retriever")),
           KV("inputs", Obj1("query", JStr("q-" \o id))),
           KV("outputs", Obj1("documents", JArr(<<Document(id \o "a", 2), Document(id \o "b", 1)>>)))>>
         \o (IF children = <<>> THEN <<>> ELSE <<KV("child_runs", JArr(children))>>))

\* a run of one of the types llm, chain and retriever
LsUnit(id, type, children) ==
    IF type = "retriever" THEN LsRetriever(id, children) ELSE LsRun(id, type, children)

\* the trees of a root with two children, the first of which has a child, in
\* which at least one run is a retriever
RetrieverTrees ==
    {LsUnit("n1", ts[1], <<LsUnit("n2", ts[2], <<LsUnit("n4", ts[4], <<>>)>>),
                           LsUnit("n3", ts[3], <<>>)>>) :
        ts \in {f \in [1..4 -> UnitTypes \cup {"retriever"}] : \E d \in 1..4 : f[d] = "retriever"}}

\* span lists cut out of a larger trace: every span names a parent, and the
\* parent of the first one is not in the list
OrphanSpanLists ==
    {Obj1("spans", JArr(<<OtelSpan("s2", "s1", t)>>)) : t \in UnitTypes}
    \cup {Obj1("spans", JArr(<<OtelSpan("s2", "s1", t), OtelSpan("s3", "s2", "chain")>>)) :
             t \in UnitTypes}

\* units with malformed or missing fields: a span without name, a named span
\* without timestamps and attributes, runs whose inputs or outputs are a string,
\* and retriever runs whose documents are null or a number
SpanWithoutName == Obj1("spans", JArr(<<Obj2("traceId", JStr("t"), "spanId", JStr("s1"))>>))
SpanWithoutTimes ==
    Obj1("spans", JArr(<<Obj3("traceId", JStr("t"), "spanId", JStr("s1"), "name", JStr("step"))>>))
RunWithTextInputs == Obj3("id", JStr("n1"), "run_type", JStr("llm"), "inputs", JStr("text"))
RunWithTextOutputs ==
    Obj4("id", JStr("n1"), "run_type", JStr("llm"), "inputs", Obj1("prompt", JStr("q-n1")),
         "outputs", JStr("text"))
RetrieverOf(doc) ==
    Obj3("id", JStr("n1"), "run_type", JStr("retriever"),
         "outputs", Obj1("documents", JArr(<<doc>>)))
MalformedUnits ==
    {SpanWithoutName, SpanWithoutTimes, RunWithTextInputs, RunWithTextOutputs,
     RetrieverOf(Null), RetrieverOf(JNum(7))}

\* the longest list of chat messages
MaxMessages == 2

\* chat messages: a system message, two user messages and an assistant message
Message(role, content) == Obj2("role", JStr(role), "content", JStr(content))
Messages ==
    {Message("system", "S"), Message("user", "U1"), Message("user", "U2"),
     Message("assistant", "A")}
MessageLists == UNION {[1..n -> Messages] : n \in 1..MaxMessages}

\* a LangSmith LLM run whose inputs.messages is the list
LsMessageRun(list) ==
    Obj4("id", JStr("n1"), "run_type", JStr("llm"), "inputs", Obj1("messages", JArr(list)),
         "outputs", Obj1("output", JStr("a-n1")))

\* an OTLP attribute value that encodes a message, and an LLM span whose
\* gen_ai.prompt attribute is the list
OtlpMessage(m) ==
    Obj1("kvlistValue",
         Obj1("values",
              JArr([i \in 1..Len(m.kv) |->
                      Obj2("key", JStr(m.kv[i].k), "value", Obj1("stringValue", m.kv[i].v))])))
OtelMessageSpan(list) ==
    Obj1("spans",
         JArr(<<JObj(<<KV("traceId", JStr("t")), KV("spanId", JStr("s1")),
                       KV("name", JStr("llm.chat")),
                       KV("attributes",
                          JArr(<<Obj2("key", JStr("gen_ai.prompt"),
                                      "value",
                                      Obj1("arrayValue",
                                           Obj1("values",
                                                JArr([i \in 1..Len(list) |->
                                                        OtlpMessage(list[i])])))),
                                 Obj2("key", JStr("gen_ai.completion"),
                                      "value", Obj1("stringValue", JStr("a-s1")))>>))>>)>>))

MessageProbes ==
    {LsMessageRun(list) : list \in MessageLists} \cup {OtelMessageSpan(list) : list \in MessageLists}

\* a span of a trace: an LLM call, or a retriever that returns one document
TraceSpan(trace, id, type) ==
    JObj(<<KV("traceId", JStr(trace)), KV("spanId", JStr(id)),
           KV("name", JStr(IF type = "llm" THEN "llm.chat" ELSE "retriever")),
           KV("attributes",
              IF type = "llm"
              THEN JArr(<<Obj2("key", JStr("gen_ai.prompt"),
                               "value", Obj1("stringValue", JStr("q-" \o id)))>>)
              ELSE Obj1("documents", JArr(<<Obj1("text", JStr("doc-" \o trace))>>)))>>)

\* exports that hold the spans of one trace, and of two traces
MultiTraceExports ==
    {Obj1("spans", JArr(l)) :
        l \in {<<TraceSpan("t1", "s1", "retriever"), TraceSpan("t1", "s2", "llm")>>,
               <<TraceSpan("t1", "s1", "retriever"), TraceSpan("t1", "s2", "llm"),
                 TraceSpan("t2", "s3", "llm")>>,
               <<TraceSpan("t2", "s3", "llm"), TraceSpan("t1", "s1", "retriever"),
                 TraceSpan("t1", "s2", "llm")>>,
               <<TraceSpan("t1", "s1", "retriever"), TraceSpan("t1", "s2", "llm"),
                 TraceSpan("t2", "s3", "retriever"), TraceSpan("t2", "s4", "llm")>>}}

\* the properties a canonical record may carry besides input and outputs
OptionalKey(k, v, present) == IF present THEN <<KV(k, v)>> ELSE <<>>

\* time stamps in nanoseconds as OTLP transmits them, and values that are none
IntegerStamps == {"0", "999999", "1000000", "2500000"}
Stamps == IntegerStamps \cup {"absent", "", "abc", "1.5"}

\* an LLM span with the start and end time given
TimedSpan(start, end) ==
    Obj1("spans",
         JArr(<<JObj(<<KV("traceId", JStr("t")), KV("spanId", JStr("s1")),
                       KV("name", JStr("llm.chat"))>>
                     \o OptionalKey("startTimeUnixNano", JStr(start), start # "absent")
                     \o OptionalKey("endTimeUnixNano", JStr(end), end # "absent")
                     \o <<KV("attributes",
                             JArr(<<Obj2("key", JStr("gen_ai.completion"),
                                         "value", Obj1("stringValue", JStr("a-s1")))>>))>>)>>))
TimedSpans == {TimedSpan(start, end) : start \in Stamps, end \in Stamps}

TraceProbes ==
    LangSmithTrees \cup OtelSpanLists \cup RetrieverTrees \cup OrphanSpanLists \cup MalformedUnits
    \cup MessageProbes \cup MultiTraceExports \cup TimedSpans

InitAdapters ==
    /\ StoreClosed
    /\ adapters = OrchestratorAdapters
    /\ otelMappings = DEFAULT_OTEL_MAPPINGS
    /\ regLog = <<langSmithAdapter, otelAdapter>>
    /\ probe \in DetectProbes \cup TraceProbes
    /\ detected = Idle
    /\ normalized = Idle
    /\ job = <<>>

\* adapter.detect(probe)
DetectCall(adapter) ==
    /\ detected' = DetectOutcome(adapter.name, Detect(adapter, probe))
    /\ UNCHANGED <<adapters, otelMappings, regLog, probe, normalized, job, db, store, inFlight>>

\* adapter.normalize(probe), called on a value the adapter detects
NormalizeCall(adapter) ==
    /\ ~IsThrow(Detect(adapter, probe))
    /\ Truthy(Detect(adapter, probe))
    /\ normalized' = NormalizeOutcome(adapter.name, Normalize(adapter, probe, otelMappings))
    /\ UNCHANGED <<adapters, otelMappings, regLog, probe, detected, job, db, store, inFlight>>

\* isLangSmithRun(probe), the exported run detector
IsLangSmithRunCall ==
    /\ detected' = [call |-> "isLangSmithRun", adapter |-> "langsmith",
                    out |-> JBool(isLangSmithRun(probe))]
    /\ UNCHANGED <<adapters, otelMappings, regLog, probe, normalized, job, db, store, inFlight>>

NextAdapters ==
    \/ IsLangSmithRunCall
    \/ \E i \in 1..Len(adapters) : DetectCall(adapters[i])
    \/ \E i \in 1..Len(adapters) : NormalizeCall(adapters[i])

SpecAdapters == InitAdapters /\ [][NextAdapters]_vars

-----------------------------------------------------------------------------
(* Specifications SpecImport and SpecPair: parseJsonlFile on one file, and on *)
(* two files whose payloads differ in one line                                *)

\* the longest payload, in lines, and the longest payload of a pair
MaxLines == 2
MaxPairLines == 3

\* reported file sizes around the limit
FileSizes == {MAX_FILE_SIZE - 1, MAX_FILE_SIZE, MAX_FILE_SIZE + 1, 51 * 1024 * 1024}

\* {"prompt":"Hello","response":"World"} and the same with metadata keys
GenericDoc == Obj2("prompt", JStr("Hello"), "response", JStr("World"))
GenericDocWithMeta ==
    Obj4("id", JStr("1"), "name", JStr("x"), "prompt", JStr("Hello"), "response", JStr("World"))
\* {"question":"Why?","answer":"So.","context":["doc"]}
QuestionDoc ==
    Obj3("question", JStr("Why?"), "answer", JStr("So."), "context", JArr(<<JStr("doc")>>))
\* a record in the canonical shape, and one whose prompt is null
CanonicalDoc ==
    Obj2("input", Obj1("prompt", JStr("kept")),
         "outputs", JArr(<<Obj2("model_id", JStr("m"), "text", JStr("t"))>>))
CanonicalNullPrompt == Obj2("input", Obj1("prompt", Null), "outputs", JArr(<<>>))
\* {"messages":[{"role":"user","content":"u?"},{"role":"assistant","content":"a."}]}
FineTuneDoc ==
    Obj1("messages", JArr(<<Obj2("role", JStr("user"), "content", JStr("u?")),
                            Obj2("role", JStr("assistant"), "content", JStr("a."))>>))
\* {"model":"m","prompt":"p?","choices":[{"message":{"content":"c."}}],"usage":{"total_tokens":3}}
CompletionDoc ==
    Obj4("model", JStr("m"), "prompt", JStr("p?"),
         "choices", JArr(<<Obj1("message", Obj1("content", JStr("c.")))>>),
         "usage", Obj1("total_tokens", JNum(3)))
\* {"input":{"prompt":"r?","context_chunks":[{"text":"c","source":"s","score":1}]},"output":"o."}
RagDoc ==
    Obj2("input", Obj2("prompt", JStr("r?"),
                       "context_chunks",
                       JArr(<<Obj3("text", JStr("c"), "source", JStr("s"), "score", JNum(1))>>)),
         "output", JStr("o."))
\* a LangSmith chain run with two LLM children
TwoLeafRun == LsRun("n1", "chain", <<LsRun("n2", "llm", <<>>), LsRun("n3", "llm", <<>>)>>)
\* an OTLP export without spans, and a spans array whose first element is null
EmptyOtelDoc == Obj1("resourceSpans", JArr(<<>>))
NullSpansDoc == Obj1("spans", JArr(<<Null>>))
\* a span list whose span has no name
NamelessSpanDoc == Obj1("spans", JArr(<<Obj2("traceId", JStr("t"), "spanId", JStr("s1"))>>))
\* an array of a generic object and a number, and an object of no known shape
MixedArray == JArr(<<GenericDoc, JNum(5)>>)
UnknownDoc == Obj1("note", JStr("n"))

\* the lines a payload is made of
Lines ==
    {BlankLine, InvalidLine}
    \cup {JsonLine(v) : v \in {GenericDoc, GenericDocWithMeta, QuestionDoc, CanonicalDoc,
                               CanonicalNullPrompt, FineTuneDoc, CompletionDoc, RagDoc,
                               TwoLeafRun, EmptyOtelDoc, NullSpansDoc, NamelessSpanDoc,
                               MixedArray,
                               UnknownDoc, Null, JNum(7)}}

Payloads == UNION {[1..n -> Lines] : n \in 0..MaxLines}

\* the lines of the payloads of a pair
PairLines ==
    {BlankLine, InvalidLine, JsonLine(GenericDoc), JsonLine(TwoLeafRun), JsonLine(NullSpansDoc)}

\* two payloads of n lines that differ in one line, non-blank in both
PayloadPairsOf(n) ==
    UNION {{<<a, [a EXCEPT ![k] = l]>> :
              a \in {x \in [1..n -> PairLines] : x[k] # BlankLine},
              l \in PairLines \ {BlankLine}} :
           k \in 1..n}

PayloadPairs == {q \in UNION {PayloadPairsOf(n) : n \in 2..MaxPairLines} : q[1] # q[2]}

\* a File object: its reported size and the text its content resolves to
File(size, lines) == [size |-> size, lines |-> lines]

\* a call of parseJsonlFile(file) that has not yet run
NewJob(file) ==
    [file |-> file, pc |-> "start", textRead |-> FALSE, mode |-> "none", cuts |-> <<>>,
     result |-> Undefined]

InitImport ==
    /\ StoreClosed
    /\ adapters = OrchestratorAdapters
    /\ otelMappings = DEFAULT_OTEL_MAPPINGS
    /\ regLog = <<langSmithAdapter, otelAdapter>>
    /\ probe = Undefined
    /\ detected = Idle
    /\ normalized = Idle
    /\ job \in {<<NewJob(File(size, lines))>> : size \in FileSizes, lines \in Payloads}

InitPair ==
    /\ StoreClosed
    /\ adapters = OrchestratorAdapters
    /\ otelMappings = DEFAULT_OTEL_MAPPINGS
    /\ regLog = <<langSmithAdapter, otelAdapter>>
    /\ probe = Undefined
    /\ detected = Idle
    /\ normalized = Idle
    /\ job \in {<<NewJob(File(MAX_FILE_SIZE, pair[1])), NewJob(File(MAX_FILE_SIZE, pair[2]))>> :
                  pair \in PayloadPairs}

\* parseJsonlFile up to its await: the size gate returns the rejection, or
\* file.text() is called
parseJsonlFileStart(j) ==
    /\ job[j].pc = "start"
    /\ job' = [job EXCEPT ![j] =
                 IF tooLarge(job[j].file)
                 THEN [job[j] EXCEPT !.pc = "done", !.result = sizeLimitResult]
                 ELSE [job[j] EXCEPT !.pc = "reading", !.textRead = TRUE]]
    /\ UNCHANGED <<adapters, otelMappings, regLog, probe, detected, normalized, db, store, inFlight>>

\* parseJsonlFile from the resolution of file.text() to its return
parseJsonlFileResume(j) ==
    /\ job[j].pc = "reading"
    /\ job' = [job EXCEPT ![j] =
                 Let(parseText(adapters, otelMappings, job[j].file.lines), LAMBDA out :
                     [job[j] EXCEPT !.pc = "done", !.mode = out.mode, !.cuts = out.cuts,
                                    !.result = out.result])]
    /\ UNCHANGED <<adapters, otelMappings, regLog, probe, detected, normalized, db, store, inFlight>>

NextImport ==
    \/ \E j \in 1..Len(job) : parseJsonlFileStart(j)
    \/ \E j \in 1..Len(job) : parseJsonlFileResume(j)

SpecImport == InitImport /\ [][NextImport]_vars

SpecPair == InitPair /\ [][NextImport]_vars

-----------------------------------------------------------------------------
(* Specification SpecReimport: parseJsonlFile on one document, and again on *)
(* the records it returned                                                   *)

\* how many times in a row the records are imported
MaxRounds == 2

RECURSIVE toJSON(_)
\* JSON.parse(JSON.stringify(v)): a property whose value is undefined is left out;
\* undefined in an array and NaN become null
toJSON(v) ==
    CASE v.t = "object" ->
            JObj([i \in 1..Len(SelectSeq(v.kv, LAMBDA e : e.v.t # "undefined")) |->
                    KV(SelectSeq(v.kv, LAMBDA e : e.v.t # "undefined")[i].k,
                       toJSON(SelectSeq(v.kv, LAMBDA e : e.v.t # "undefined")[i].v))])
      [] v.t = "array" -> JArr([i \in 1..Len(v.a) |-> toJSON(v.a[i])])
      [] v.t \in {"undefined", "NaN"} -> Null
      [] OTHER -> v


\* a record in the canonical shape: id absent, "r1" or empty; created_at and
\* status absent or set; no context chunk, one without score or one with score
CanonicalRecord(id, created, status, chunks, traced) ==
    JObj(OptionalKey("id", JStr(IF id = "empty" THEN "" ELSE id), id # "none")
         \o OptionalKey("created_at", JStr("2026-01-13T05:06:35.945Z"), created)
         \o OptionalKey("status", JStr("approved"), status)
         \o OptionalKey("trace_metadata", Obj2("span_type", JStr("llm"), "source", JStr("hivemind")),
                        traced)
         \o OptionalKey("tags", JArr(<<JStr("dev")>>), traced)
         \o <<KV("input",
                 JObj(<<KV("prompt", JStr("kept"))>>
                      \o OptionalKey("context_chunks",
                                     JArr(<<JObj(<<KV("text", JStr("c"))>>
                                                 \o OptionalKey("score", JNum(1),
                                                                chunks = "scored"))>>),
                                     chunks # "none"))),
              KV("outputs", JArr(<<Obj2("model_id", JStr("m"), "text", JStr("t"))>>))>>)

CanonicalRecords ==
    {CanonicalRecord(id, created, status, chunks, traced) :
        id \in {"none", "r1", "empty"}, created \in BOOLEAN, status \in BOOLEAN,
        chunks \in {"none", "unscored", "scored"}, traced \in BOOLEAN}

\* documents of the other shapes, as they are and with a status of their own
ShapedDocs ==
    {GenericDoc, QuestionDoc, FineTuneDoc, CompletionDoc, RagDoc, UnknownDoc, TwoLeafRun,
     LsRun("n1", "llm", <<>>), OtelSpan("s1", "", "llm"), OtelSpan("s1", "", "chain")}

StatusDocs == ShapedDocs \cup {SetKey(doc, "status", JStr("approved")) : doc \in ShapedDocs}

\* units without response data: a LangSmith run without outputs and one whose
\* outputs are {}, an LLM span with a prompt attribute only, and a fine-tune
\* object with a user message only
RunWithoutOutputs ==
    Obj3("id", JStr("n1"), "run_type", JStr("llm"), "inputs", Obj1("prompt", JStr("q-n1")))
RunWithEmptyOutputs == SetKey(RunWithoutOutputs, "outputs", EmptyObj)
SpanWithoutResponse ==
    JObj(<<KV("traceId", JStr("t")), KV("spanId", JStr("s1")), KV("name", JStr("llm.chat")),
           KV("attributes", JArr(<<Obj2("key", JStr("gen_ai.prompt"),
                                        "value", Obj1("stringValue", JStr("q-s1")))>>))>>)
FineTuneWithoutAssistant ==
    Obj1("messages", JArr(<<Obj2("role", JStr("user"), "content", JStr("u?"))>>))

NoResponseDocs ==
    {RunWithoutOutputs, RunWithEmptyOutputs, SpanWithoutResponse, FineTuneWithoutAssistant}

\* units whose retrieved documents carry no score: a LangSmith tree with a
\* retriever, a span list with a retriever span, a fine-tune object and a generic
\* object with a context array, and a nested input with context_chunks
UnscoredRun ==
    LsRun("n1", "chain",
          <<JObj(<<KV("id", JStr("n2")), KV("run_type", JStr("retriever")),
                   KV("outputs", Obj1("documents", JArr(<<Obj1("page_content", JStr("c"))>>)))>>),
            LsRun("n3", "llm", <<>>)>>)
UnscoredSpans ==
    Obj1("spans",
         JArr(<<JObj(<<KV("traceId", JStr("t")), KV("spanId", JStr("s1")),
                       KV("name", JStr("retriever")),
                       KV("attributes",
                          Obj1("documents", JArr(<<Obj1("text", JStr("c")), JStr("d")>>)))>>),
                OtelSpan("s2", "", "llm")>>))
UnscoredFineTune == SetKey(FineTuneDoc, "context", JArr(<<Obj1("text", JStr("c"))>>))
UnscoredGeneric == SetKey(GenericDoc, "context", JArr(<<Obj1("text", JStr("c")), JStr("d")>>))
UnscoredNested ==
    Obj2("input", Obj2("prompt", JStr("r?"), "context_chunks", JArr(<<Obj1("text", JStr("c"))>>)),
         "output", JStr("o."))

UnscoredDocs == {UnscoredRun, UnscoredSpans, UnscoredFineTune, UnscoredGeneric, UnscoredNested}

\* the documents imported first
ReimportDocs == CanonicalRecords \cup StatusDocs \cup NoResponseDocs \cup UnscoredDocs

InitReimport ==
    /\ StoreClosed
    /\ adapters = OrchestratorAdapters
    /\ otelMappings = DEFAULT_OTEL_MAPPINGS
    /\ regLog = <<langSmithAdapter, otelAdapter>>
    /\ probe = Undefined
    /\ detected = Idle
    /\ normalized = Idle
    /\ job \in {<<NewJob(File(MAX_FILE_SIZE, <<JsonLine(doc)>>))>> : doc \in ReimportDocs}

\* the records of the last import are written out, one per line, and handed to
\* parseJsonlFile again
Reimport ==
    /\ Len(job) < MaxRounds
    /\ job[Len(job)].pc = "done"
    /\ job' = Append(job,
                 NewJob(File(MAX_FILE_SIZE,
                             [i \in 1..Len(job[Len(job)].result.items) |->
                                 JsonLine(toJSON(job[Len(job)].result.items[i]))])))
    /\ UNCHANGED <<adapters, otelMappings, regLog, probe, detected, normalized, db, store, inFlight>>

NextReimport ==
    \/ \E j \in 1..Len(job) : parseJsonlFileStart(j)
    \/ \E j \in 1..Len(job) : parseJsonlFileResume(j)
    \/ Reimport

SpecReimport == InitReimport /\ [][NextReimport]_vars

-----------------------------------------------------------------------------
(* Specification SpecMappings: setOTelMappings calls, then parseJsonlFile on *)
(* one document                                                              *)

\* how many times setOTelMappings is called
MaxCalls == 2

\* vendor keys and names a caller registers
CustomMappings ==
    <<KV("promptAttributes", <<"custom.input.text">>),
      KV("responseAttributes", <<"custom.output.text">>),
      KV("llmSpanNames", <<"vendor.call">>)>>

\* the arguments of setOTelMappings: any selection of the custom fields, the
\* custom prompt key put before the default ones, and the whole default table
MappingUpdates ==
    {SelectSeq(CustomMappings, LAMBDA e : e.k \in F) :
        F \in SUBSET {"promptAttributes", "responseAttributes", "llmSpanNames"}}
    \cup {<<KV("promptAttributes",
               <<"custom.input.text">> \o DEFAULT_OTEL_MAPPINGS.promptAttributes)>>,
          [i \in 1..6 |->
              LET f == <<"promptAttributes", "responseAttributes", "modelAttributes",
                         "tokenAttributes", "llmSpanNames", "retrieverSpanNames">>[i]
              IN  KV(f, DEFAULT_OTEL_MAPPINGS[f])]}

\* a span that exposes the custom prompt key only, alone and below a root span
CustomSpan(parent) ==
    JObj(<<KV("traceId", JStr("t")), KV("spanId", JStr("s2"))>>
         \o (IF parent = "" THEN <<>> ELSE <<KV("parentSpanId", JStr(parent))>>)
         \o <<KV("name", JStr("step")),
              KV("attributes",
                 JArr(<<Obj2("key", JStr("custom.input.text"),
                             "value", Obj1("stringValue", JStr("Custom prompt")))>>))>>)
CustomSpanDocs ==
    {Obj1("spans", JArr(<<CustomSpan("")>>)),
     Obj1("spans", JArr(<<OtelSpan("s1", "", "chain"), CustomSpan("s1")>>))}

MappingDocs == CustomSpanDocs \cup {Obj1("spans", JArr(<<OtelSpan("s1", "", "llm")>>))}

InitMappings ==
    /\ StoreClosed
    /\ adapters = OrchestratorAdapters
    /\ otelMappings = DEFAULT_OTEL_MAPPINGS
    /\ regLog = <<>>
    /\ probe = Undefined
    /\ detected = Idle
    /\ normalized = Idle
    /\ job \in {<<NewJob(File(MAX_FILE_SIZE, <<JsonLine(doc)>>))>> : doc \in MappingDocs}

\* adapterRegistry.setOTelMappings(mappings), called before the import begins;
\* regLog keeps the arguments of the calls
SetOTelMappingsCall(mappings) ==
    /\ Len(regLog) < MaxCalls
    /\ job[1].pc = "start"
    /\ otelMappings' = setOTelMappings(otelMappings, mappings)
    /\ regLog' = Append(regLog, mappings)
    /\ UNCHANGED <<adapters, probe, detected, normalized, job, db, store, inFlight>>

NextMappings ==
    \/ \E mappings \in MappingUpdates : SetOTelMappingsCall(mappings)
    \/ \E j \in 1..Len(job) : parseJsonlFileStart(j)
    \/ \E j \in 1..Len(job) : parseJsonlFileResume(j)

SpecMappings == InitMappings /\ [][NextMappings]_vars

-----------------------------------------------------------------------------
(* Specification SpecExport: parseJsonlFile on reviewed records, then *)
(* exportToJsonl on the records it returned                           *)

\* the longest payload of reviewed records, in lines
MaxItems == 2

\* the text of the first output, whatever model is selected
firstOutputText(item) ==
    Or(Get(Get(item, "human_feedback"), "corrected_text"),
       Or(GetOpt(At(Get(item, "outputs"), 0), "text"), JStr("")))

\* responseText of exportToJsonl: the corrected text, else the text of the
\* selected output when a model is selected and of the first output when none
\* is, else ''
exportResponseText(item) ==
    Let(Get(item, "human_feedback"), LAMBDA feedback :
    Let(Get(feedback, "selected_model_id"), LAMBDA selected :
    Or(Get(feedback, "corrected_text"),
       Or(IF Truthy(selected)
          THEN GetOpt(FindBy(Get(item, "outputs").a, "model_id", selected, {"undefined", "null"}),
                      "text")
          ELSE GetOpt(At(Get(item, "outputs"), 0), "text"),
          JStr("")))))

\* the messages exportToJsonl builds for an item
exportMessages(item) ==
    Let(Get(Get(item, "input"), "system_prompt"), LAMBDA system_prompt :
    Let(exportResponseText(item), LAMBDA responseText :
    (IF Truthy(system_prompt)
     THEN <<Obj2("role", JStr("system"), "content", system_prompt)>> ELSE <<>>)
    \o <<Obj2("role", JStr("user"), "content", Get(Get(item, "input"), "prompt"))>>
    \o (IF Truthy(responseText)
        THEN <<Obj2("role", JStr("assistant"), "content", responseText)>> ELSE <<>>)))

\* exportToJsonl(items, { includeMetadata }): the lines of the text it returns
exportToJsonl(items, includeMetadata) ==
    [i \in 1..Len(items) |->
        IF includeMetadata
        THEN JsonLine(toJSON(items[i]))
        ELSE JsonLine(toJSON(Obj1("messages", JArr(exportMessages(items[i])))))]

\* outputs of two models, the first of which may have no text
OutputOf(model, text) == Obj2("model_id", JStr(model), "text", JStr(text))
OutputLists ==
    {<<>>, <<OutputOf("a", "ta")>>, <<OutputOf("a", "ta"), OutputOf("b", "tb")>>,
     <<OutputOf("a", ""), OutputOf("b", "tb")>>}

\* a record after review: system prompt absent, empty or set; corrected text
\* absent, empty or set; no model selected, or model a, b or z selected
ReviewedRecord(sys, outs, corrected, selected) ==
    Obj4("id", JStr("r1"),
         "input", JObj(<<KV("prompt", JStr("Hello"))>>
                       \o OptionalKey("system_prompt",
                                      JStr(IF sys = "empty" THEN "" ELSE "Be helpful"),
                                      sys # "none")
                       \o <<KV("context_chunks", JArr(<<>>))>>),
         "outputs", JArr(outs),
         "human_feedback",
            JObj(OptionalKey("corrected_text",
                             JStr(IF corrected = "empty" THEN "" ELSE "Corrected response"),
                             corrected # "none")
                 \o OptionalKey("selected_model_id", JStr(selected), selected # "none")))

ReviewedRecords ==
    {ReviewedRecord(sys, outs, corrected, selected) :
        sys \in {"none", "empty", "set"}, outs \in OutputLists,
        corrected \in {"none", "empty", "set"}, selected \in {"none", "a", "b", "z"}}

\* the records of the longer payloads
FewReviewedRecords ==
    {ReviewedRecord("set", <<OutputOf("a", "ta"), OutputOf("b", "tb")>>, "none", "b"),
     ReviewedRecord("none", <<OutputOf("a", "ta")>>, "set", "none"),
     ReviewedRecord("none", <<>>, "none", "none")}

ExportPayloads ==
    {<<JsonLine(r)>> : r \in ReviewedRecords}
    \cup UNION {[1..n -> {JsonLine(r) : r \in FewReviewedRecords}] : n \in 2..MaxItems}

InitExport ==
    /\ StoreClosed
    /\ adapters = OrchestratorAdapters
    /\ otelMappings = DEFAULT_OTEL_MAPPINGS
    /\ regLog = <<langSmithAdapter, otelAdapter>>
    /\ probe = Undefined
    /\ detected = Idle
    /\ normalized = Idle
    /\ job \in {<<NewJob(File(MAX_FILE_SIZE, lines))>> : lines \in ExportPayloads}

\* exportToJsonl(items, { includeMetadata }) on the records of the import
ExportToJsonlCall(includeMetadata) ==
    /\ job[1].pc = "done"
    /\ normalized' = [call |-> "exportToJsonl", includeMetadata |-> includeMetadata,
                      out |-> exportToJsonl(job[1].result.items, includeMetadata)]
    /\ UNCHANGED <<adapters, otelMappings, regLog, probe, detected, job, db, store, inFlight>>

NextExport ==
    \/ \E j \in 1..Len(job) : parseJsonlFileStart(j)
    \/ \E j \in 1..Len(job) : parseJsonlFileResume(j)
    \/ \E includeMetadata \in BOOLEAN : ExportToJsonlCall(includeMetadata)

SpecExport == InitExport /\ [][NextExport]_vars

-----------------------------------------------------------------------------
(* Specification SpecRoundTrip: an import, the export of its records, and the *)
(* import of the exported text                                                *)

\* the units imported first: reviewed canonical records, LangSmith runs, a run
\* tree with two LLM leaves, an OTel span
\* a LangSmith run with its times: the start is no date
RunStartedYesterday ==
    SetKey(SetKey(LsRun("n1", "llm", <<>>), "start_time", JStr("yesterday")),
           "end_time", JStr(DateTable[2]))

\* a LangSmith run with its times, both dates
RunOfOneSecond ==
    SetKey(SetKey(LsRun("n1", "llm", <<>>), "start_time", JStr(DateTable[1])),
           "end_time", JStr(DateTable[2]))

RoundTripDocs ==
    FewReviewedRecords
    \cup {CanonicalDoc, LsRun("n1", "llm", <<>>), TwoLeafRun, OtelSpan("s1", "", "llm"),
          RunOfOneSecond, RunStartedYesterday}

\* files of one unit, of several units, and without any record
RoundTripPayloads ==
    {<<JsonLine(doc)>> : doc \in RoundTripDocs}
    \cup UNION {[1..n -> {JsonLine(doc) : doc \in RoundTripDocs}] : n \in 2..MaxItems}
    \cup {<<InvalidLine>>}

\* the lines of the file that holds the exported text: items joined by "\n";
\* the empty text is one blank line
joinLines(out) == IF out = <<>> THEN <<BlankLine>> ELSE out

InitRoundTrip ==
    /\ StoreClosed
    /\ adapters = OrchestratorAdapters
    /\ otelMappings = DEFAULT_OTEL_MAPPINGS
    /\ regLog = <<langSmithAdapter, otelAdapter>>
    /\ probe = Undefined
    /\ detected = Idle
    /\ normalized = Idle
    /\ job \in {<<NewJob(File(MAX_FILE_SIZE, lines))>> : lines \in RoundTripPayloads}

\* the exported text is handed to parseJsonlFile
ImportExported ==
    /\ Len(job) = 1
    /\ normalized.call = "exportToJsonl"
    /\ job' = Append(job, NewJob(File(MAX_FILE_SIZE, joinLines(normalized.out))))
    /\ UNCHANGED <<adapters, otelMappings, regLog, probe, detected, normalized, db, store, inFlight>>

NextRoundTrip ==
    \/ \E j \in 1..Len(job) : parseJsonlFileStart(j)
    \/ \E j \in 1..Len(job) : parseJsonlFileResume(j)
    \/ \E includeMetadata \in BOOLEAN : ExportToJsonlCall(includeMetadata)
    \/ ImportExported

SpecRoundTrip == InitRoundTrip /\ [][NextRoundTrip]_vars

-----------------------------------------------------------------------------
(* The review store: async actions interleave at their awaits *)

\* how many async store actions a session calls
MaxAsync == 2

\* the calls made so far; a call that has returned is kept as NoCall
Slots == 1..Len(inFlight)

\* an async action is called and runs up to its first await
Begins(call) ==
    /\ Len(inFlight) < MaxAsync
    /\ inFlight' = Append(inFlight, call)

\* the step of call i from the resolution of the await it waits at to its next
\* await leaves every other call alone
Becomes(i, call) == inFlight' = [inFlight EXCEPT ![i] = call]

importVars == <<adapters, otelMappings, regLog, probe, detected, normalized, job>>

\* loadItems(), lines 77-80
LoadItems ==
    /\ store' = loadItemsBegin(store)
    /\ Begins(Loading)
    /\ UNCHANGED <<importVars, db>>

\* getAllItems() resolves; getStatusCounts() asks for its first count
GetAllItemsDone(i) ==
    /\ inFlight[i].op = "loadItems"
    /\ inFlight[i].pc = "getAllItems"
    /\ Becomes(i, [inFlight[i] EXCEPT !.pc = "count", !.items = db])
    /\ UNCHANGED <<importVars, db, store>>

\* a count of getStatusCounts resolves: the next count is asked for, or after
\* the fifth loadItems sets items and stats (lines 82-92)
CountDone(i) ==
    /\ inFlight[i].op = "loadItems"
    /\ inFlight[i].pc = "count"
    /\ IF Len(inFlight[i].counts) < Len(statuses)
       THEN /\ Becomes(i, [inFlight[i] EXCEPT !.counts =
                              Append(@, countByStatus(db, statuses[Len(@) + 1]))])
            /\ UNCHANGED store
       ELSE /\ store' = [store EXCEPT !.items = inFlight[i].items,
                                      !.stats = statsOf(Append(inFlight[i].counts, Len(db))),
                                      !.isLoading = FALSE]
            /\ Becomes(i, NoCall)
    /\ UNCHANGED <<importVars, db>>

\* setSelectedItem(id), for null and the id of a loaded item
SetSelectedItem(id) ==
    /\ id = Null \/ (id.t = "string" /\ id.s \in idsOf(store.items))
    /\ store' = [store EXCEPT !.selectedItemId = id]
    /\ UNCHANGED <<importVars, db, inFlight>>

\* toggleItemSelection(id), for the id of a loaded item
ToggleItemSelection(id) ==
    /\ id \in idsOf(store.items)
    /\ store' = [store EXCEPT !.selectedIds = IF id \in @ THEN @ \ {id} ELSE @ \cup {id}]
    /\ UNCHANGED <<importVars, db, inFlight>>

\* selectAllItems()
SelectAllItems ==
    /\ store' = [store EXCEPT !.selectedIds = idsOf(getFilteredItems(store))]
    /\ UNCHANGED <<importVars, db, inFlight>>

\* updateItemStatus(id, status) up to its await
UpdateItemStatus(id, status) ==
    /\ Begins([op |-> "updateItemStatus", pc |-> "updateStatus", id |-> id,
                   status |-> status])
    /\ UNCHANGED <<importVars, db, store>>

\* dbOperations.updateStatus resolves, loadItems() is called
UpdateStatusDone(i) ==
    /\ inFlight[i].op = "updateItemStatus"
    /\ db' = dbUpdateStatus(db, inFlight[i].id, inFlight[i].status)
    /\ store' = loadItemsBegin(store)
    /\ Becomes(i, Loading)
    /\ UNCHANGED importVars

\* bulkUpdateStatus(status) up to its await; it returns at once without a selection
BulkUpdateStatus(status) ==
    /\ store.selectedIds # {}
    /\ Begins([op |-> "bulkUpdateStatus", pc |-> "bulkUpdateStatus",
                   ids |-> store.selectedIds, status |-> status])
    /\ UNCHANGED <<importVars, db, store>>

\* dbOperations.bulkUpdateStatus resolves: the selection is emptied, loadItems() is called
BulkUpdateStatusDone(i) ==
    /\ inFlight[i].op = "bulkUpdateStatus"
    /\ db' = dbBulkUpdateStatus(db, inFlight[i].ids, inFlight[i].status)
    /\ store' = loadItemsBegin([store EXCEPT !.selectedIds = {}])
    /\ Becomes(i, Loading)
    /\ UNCHANGED importVars

\* deleteItems(ids) up to its await
DeleteItems(ids) ==
    /\ Begins([op |-> "deleteItems", pc |-> "deleteItems", ids |-> ids])
    /\ UNCHANGED <<importVars, db, store>>

\* dbOperations.deleteItems resolves: the ids leave the selection, loadItems() is called
DeleteItemsDone(i) ==
    /\ inFlight[i].op = "deleteItems"
    /\ db' = dbDeleteItems(db, inFlight[i].ids)
    /\ store' = loadItemsBegin(
                   [store EXCEPT !.selectedIds = @ \ inFlight[i].ids,
                                 !.selectedItemId =
                                     IF @ # Null /\ @.s \in inFlight[i].ids THEN Null ELSE @])
    /\ Becomes(i, Loading)
    /\ UNCHANGED importVars

\* clearAllData() up to its await
ClearAllData ==
    /\ Begins([op |-> "clearAllData", pc |-> "clearAll"])
    /\ UNCHANGED <<importVars, db, store>>

\* dbOperations.clearAll resolves: items, selection and stats are reset
ClearAllDone(i) ==
    /\ inFlight[i].op = "clearAllData"
    /\ db' = <<>>
    /\ store' = [store EXCEPT !.items = <<>>, !.selectedItemId = Null, !.selectedIds = {},
                              !.stats = defaultStats]
    /\ Becomes(i, NoCall)
    /\ UNCHANGED importVars

\* importFile(file) up to its await
ImportFile(file) ==
    /\ store' = loadItemsBegin(store)
    /\ Begins([op |-> "importFile", pc |-> "parseJsonlFile", file |-> file])
    /\ UNCHANGED <<importVars, db>>

\* result.items of the file call i imports
importedItems(i) == parseJsonlFile(adapters, otelMappings, inFlight[i].file).items

\* parseJsonlFile resolves: addItems is called for the records, or none were found
ParseJsonlFileDone(i) ==
    /\ inFlight[i].op = "importFile"
    /\ inFlight[i].pc = "parseJsonlFile"
    /\ IF Len(importedItems(i)) > 0
       THEN /\ Becomes(i, [op |-> "importFile", pc |-> "addItems", items |-> importedItems(i)])
            /\ UNCHANGED store
       ELSE /\ Becomes(i, NoCall)
            /\ store' = [store EXCEPT !.isLoading = FALSE]
    /\ UNCHANGED <<importVars, db>>

\* addItems resolves and loadItems() is called, or bulkAdd raises for a key
\* stored already and the catch records the error
AddItemsDone(i) ==
    /\ inFlight[i].op = "importFile"
    /\ inFlight[i].pc = "addItems"
    /\ IF addItemsRaises(db, inFlight[i].items)
       THEN /\ UNCHANGED db
            /\ store' = [store EXCEPT !.isLoading = FALSE, !.error = JStr("BulkError")]
            /\ Becomes(i, NoCall)
       ELSE /\ db' = dbAddItems(db, inFlight[i].items)
            /\ store' = loadItemsBegin(store)
            /\ Becomes(i, Loading)
    /\ UNCHANGED importVars

\* a context chunk of a record
Chunk(id, rank, excluded) ==
    JObj(<<KV("id", JStr(id)), KV("text", JStr("text of " \o id)), KV("source", JStr("kb")),
           KV("score", JNum(1)), KV("rank", JNum(rank))>>
         \o OptionalKey("excluded", JBool(excluded), excluded))

\* a canonical record with two context chunks, as a file holds it
StoreRecord(id, status) ==
    JObj(<<KV("id", JStr(id)),
           KV("input", Obj2("prompt", JStr("p-" \o id),
                            "context_chunks",
                            JArr(<<Chunk("c1", 0, FALSE), Chunk("c2", 1, FALSE)>>))),
           KV("outputs", JArr(<<Obj2("model_id", JStr("m"), "text", JStr("t"))>>)),
           KV("human_feedback", JObj(<<>>)),
           KV("status", JStr(status))>>)

\* ContextReranker.handleExclude and handleRestore
withExcluded(chunks, chunkId, excluded) ==
    [i \in 1..Len(chunks) |->
        IF Get(chunks[i], "id") = JStr(chunkId)
        THEN SetKey(chunks[i], "excluded", JBool(excluded))
        ELSE chunks[i]]

isExcluded(chunk) == Truthy(Get(chunk, "excluded"))

\* arrayMove(list, from, to)
arrayMove(list, from, to) ==
    Let(SubSeq(list, 1, from - 1) \o SubSeq(list, from + 1, Len(list)), LAMBDA rest :
        SubSeq(rest, 1, to - 1) \o <<list[from]>> \o SubSeq(rest, to, Len(rest)))

\* ContextReranker.handleDragEnd for a drag of the active chunk at oldIndex
\* over the active chunk at newIndex
reordered(chunks, oldIndex, newIndex) ==
    Let(arrayMove(SelectSeq(chunks, LAMBDA c : ~isExcluded(c)), oldIndex, newIndex),
        LAMBDA moved :
        [i \in 1..Len(moved) |-> SetKey(moved[i], "rank", JNum(i - 1))]
        \o SelectSeq(chunks, isExcluded))

\* the lists ContextReranker hands to updateContextChunks for the chunks shown:
\* the first chunk excluded or restored, or an active chunk dragged over another
ChunkUpdates(chunks) ==
    {withExcluded(chunks, "c1", ~isExcluded(dbGetItem(chunks, "c1")))}
    \cup {reordered(chunks, move[1], move[2]) :
            move \in {m \in (1..Len(SelectSeq(chunks, LAMBDA c : ~isExcluded(c))))
                             \X (1..Len(SelectSeq(chunks, LAMBDA c : ~isExcluded(c)))) :
                         m[1] # m[2]}}

\* the chunks of the loaded item with the id; none for an id that is not loaded
shownChunks(id) ==
    IF id \in idsOf(store.items)
    THEN Get(Get(dbGetItem(store.items, id), "input"), "context_chunks").a
    ELSE <<>>

\* updateContextChunks(id, chunks) up to its await: get(id) is asked for
UpdateContextChunks(id, chunks) ==
    /\ Begins([op |-> "updateContextChunks", pc |-> "get", id |-> id, chunks |-> chunks])
    /\ UNCHANGED <<importVars, db, store>>

\* get(id) resolves: the update is asked for, or without a row the operation
\* returns and loadItems() is called
GetItemDone(i) ==
    /\ inFlight[i].op = "updateContextChunks"
    /\ inFlight[i].pc = "get"
    /\ IF dbGetItem(db, inFlight[i].id) = Undefined
       THEN /\ store' = loadItemsBegin(store)
            /\ Becomes(i, Loading)
       ELSE /\ Becomes(i, [op |-> "updateContextChunks", pc |-> "update", id |-> inFlight[i].id,
                           chunks |-> inFlight[i].chunks,
                           item |-> dbGetItem(db, inFlight[i].id)])
            /\ UNCHANGED store
    /\ UNCHANGED <<importVars, db>>

\* update(id, ...) resolves, loadItems() is called
UpdateChunksDone(i) ==
    /\ inFlight[i].op = "updateContextChunks"
    /\ inFlight[i].pc = "update"
    /\ db' = dbUpdateContextChunks(db, inFlight[i].item, inFlight[i].id,
                                   JArr(inFlight[i].chunks))
    /\ store' = loadItemsBegin(store)
    /\ Becomes(i, Loading)
    /\ UNCHANGED importVars

\* the statuses a review gives
ReviewStatuses == {"approved", "rejected"}

\* the review is open: the import state is that of the running application
StoreOpen ==
    /\ adapters = OrchestratorAdapters
    /\ otelMappings = DEFAULT_OTEL_MAPPINGS
    /\ regLog = <<langSmithAdapter, otelAdapter>>
    /\ probe = Undefined
    /\ detected = Idle
    /\ normalized = Idle
    /\ job = <<>>
    /\ inFlight = <<>>

\* the files imported into the store: records that carry their id and status
StoreFiles ==
    {File(MAX_FILE_SIZE, lines) :
        lines \in {<<JsonLine(StoreRecord("a", "pending"))>>,
                   <<JsonLine(StoreRecord("a", "pending")), JsonLine(StoreRecord("b", "approved"))>>,
                   <<JsonLine(StoreRecord("b", "archived"))>>,
                   <<InvalidLine>>}}

\* the table after the import of a record
StoredRow(id, status) == passThrough(StoreRecord(id, status))

\* the tables a review has left behind: item a in each status, the pending one
\* beside a second item
StoredTables ==
    {<<StoredRow("a", status)>> : status \in {"approved", "rejected", "modified"}}
    \cup {<<StoredRow("a", "pending"), StoredRow("b", "approved")>>}

\* the store after loadItems, with nothing in flight
loaded(table) ==
    [initialStore EXCEPT !.items = table,
                         !.stats = statsOf([k \in 1..5 |-> IF k = 5 THEN Len(table)
                                                           ELSE countByStatus(table, statuses[k])])]

InitStore ==
    /\ StoreOpen
    /\ db \in {<<>>, <<StoredRow("a", "pending")>>,
               <<StoredRow("a", "pending"), StoredRow("b", "approved")>>}
    /\ store = loaded(db)

NextStore ==
    \/ LoadItems
    \/ \E i \in Slots : GetAllItemsDone(i)
    \/ \E i \in Slots : CountDone(i)
    \/ \E id \in {Null} \cup {JStr(KeyOrder[k]) : k \in 1..Len(KeyOrder)} : SetSelectedItem(id)
    \/ \E k \in 1..Len(KeyOrder) : ToggleItemSelection(KeyOrder[k])
    \/ SelectAllItems
    \/ \E k \in 1..Len(KeyOrder), status \in ReviewStatuses :
          UpdateItemStatus(KeyOrder[k], status)
    \/ \E i \in Slots : UpdateStatusDone(i)
    \/ \E status \in ReviewStatuses : BulkUpdateStatus(status)
    \/ \E i \in Slots : BulkUpdateStatusDone(i)
    \/ \E k \in 1..Len(KeyOrder) : DeleteItems({KeyOrder[k]})
    \/ \E i \in Slots : DeleteItemsDone(i)
    \/ ClearAllData
    \/ \E i \in Slots : ClearAllDone(i)
    \/ \E file \in StoreFiles : ImportFile(file)
    \/ \E i \in Slots : ParseJsonlFileDone(i)
    \/ \E i \in Slots : AddItemsDone(i)

SpecStore == InitStore /\ [][NextStore]_vars

InitChunks ==
    /\ StoreOpen
    /\ db \in StoredTables
    /\ store = loaded(db)

NextChunks ==
    \/ \E chunks \in ChunkUpdates(shownChunks("a")) : UpdateContextChunks("a", chunks)
    \/ "b" \notin idsOf(store.items) /\ UpdateContextChunks("b", <<>>)
    \/ \E i \in Slots : GetItemDone(i)
    \/ \E i \in Slots : UpdateChunksDone(i)
    \/ UpdateItemStatus("a", "approved")
    \/ \E i \in Slots : UpdateStatusDone(i)
    \/ \E i \in Slots : GetAllItemsDone(i)
    \/ \E i \in Slots : CountDone(i)

SpecChunks == InitChunks /\ [][NextChunks]_vars

-----------------------------------------------------------------------------
(* Properties of the adapters, checked under SpecAdapters *)

\* the keys of a parsed object, and the value under one of them
KeysOf(v) == IF v.t = "object" THEN {v.kv[i].k : i \in 1..Len(v.kv)} ELSE {}
FieldOf(v, k) == (CHOOSE e \in {v.kv[i] : i \in 1..Len(v.kv)} : e.k = k).v

\* the value under a key, or undefined
FieldOrNone(v, k) == IF k \in KeysOf(v) THEN FieldOf(v, k) ELSE Undefined

\* the records of a normalize result: the elements of an array, or the one record
RecordsOf(out) == IF out.t = "array" THEN out.a ELSE <<out>>

\* the elements of an array-valued field of an object, none when it has no such field
ElementsOf(v, k) ==
    IF k \in KeysOf(v) /\ FieldOf(v, k).t = "array"
    THEN {FieldOf(v, k).a[i] : i \in 1..Len(FieldOf(v, k).a)}
    ELSE {}

RECURSIVE RunsOfTree(_)
\* every run of a LangSmith run tree
RunsOfTree(run) == {run} \cup UNION {RunsOfTree(c) : c \in ElementsOf(run, "child_runs")}

LsIsLLM(run) == lsGetSpanType(Get(run, "run_type")) = JStr("llm")
OtelIsLLM(span) == isLLMSpan(span, DEFAULT_OTEL_MAPPINGS) = JBool(TRUE)

\* the spans of a span list whose parent is the given span
SpansUnder(data, span) ==
    {c \in ElementsOf(data, "spans") :
        "parentSpanId" \in KeysOf(c) /\ FieldOf(c, "parentSpanId") = FieldOf(span, "spanId")}

\* <<parent id, child id>> for every LLM run of the tree that directly wraps an
\* LLM run below which no LLM run lies at any depth
LsInnermostPairs(data) ==
    UNION {{<<FieldOf(p, "id").s, FieldOf(c, "id").s>> :
              c \in {r \in ElementsOf(p, "child_runs") :
                       LsIsLLM(r) /\ \A d \in RunsOfTree(r) \ {r} : ~LsIsLLM(d)}} :
           p \in {r \in RunsOfTree(data) : LsIsLLM(r)}}

\* <<parent id, child id>> for every LLM run of the tree that directly wraps an
\* LLM run none of whose children is an LLM run
LsChildlessPairs(data) ==
    UNION {{<<FieldOf(p, "id").s, FieldOf(c, "id").s>> :
              c \in {r \in ElementsOf(p, "child_runs") :
                       LsIsLLM(r) /\ \A d \in ElementsOf(r, "child_runs") : ~LsIsLLM(d)}} :
           p \in {r \in RunsOfTree(data) : LsIsLLM(r)}}

\* <<parent id, child id>> for every LLM span of the list that directly wraps an
\* LLM span none of whose children is an LLM span
OtelChildlessPairs(data) ==
    UNION {{<<FieldOf(p, "spanId").s, FieldOf(c, "spanId").s>> :
              c \in {r \in SpansUnder(data, p) :
                       OtelIsLLM(r) /\ \A d \in SpansUnder(data, r) : ~OtelIsLLM(d)}} :
           p \in {r \in ElementsOf(data, "spans") : OtelIsLLM(r)}}

\* exactly one of the records belongs to the pair, and it is the child's: it carries
\* the child's id, prompt and answer
OnlyInnerRecord(records, pair) ==
    LET hits == {i \in 1..Len(records) : Get(records[i], "id") \in {JStr(pair[1]), JStr(pair[2])}}
    IN  /\ Cardinality(hits) = 1
        /\ \A i \in hits :
              /\ Get(records[i], "id") = JStr(pair[2])
              /\ Get(Get(records[i], "input"), "prompt") = JStr("q-" \o pair[2])
              /\ Get(At(Get(records[i], "outputs"), 0), "text") = JStr("a-" \o pair[2])

\* C1 (as amended): when an LLM unit directly wraps an LLM unit, normalize yields
\* exactly one record for the pair and it is the child's, provided that in a
\* LangSmith run tree no LLM run lies below the child at any depth, and that in
\* an OTel span list no child of the child is an LLM span.
C1_InnerRecordOnly ==
    /\ (normalized.call = "normalize" /\ normalized.adapter = "langsmith")
          => \A pair \in LsInnermostPairs(probe) :
                OnlyInnerRecord(RecordsOf(normalized.out), pair)
    /\ (normalized.call = "normalize" /\ normalized.adapter = "otel")
          => \A pair \in OtelChildlessPairs(probe) :
                OnlyInnerRecord(RecordsOf(normalized.out), pair)

\* a LangSmith tree with a nested LLM pair next to a second leaf was normalized to
\* more than one record, the child's among them
C1_Witness ==
    /\ normalized.call = "normalize"
    /\ normalized.adapter = "langsmith"
    /\ LsInnermostPairs(probe) # {}
    /\ normalized.out.t = "array"
    /\ \E pair \in LsInnermostPairs(probe) :
          \E i \in 1..Len(normalized.out.a) : Get(normalized.out.a[i], "id") = JStr(pair[2])

\* C1 (as stated): the same with the premise that the child has no LLM children,
\* for LangSmith run trees and OTel span lists alike
C1_ChildlessInnerRecordOnly ==
    /\ (normalized.call = "normalize" /\ normalized.adapter = "langsmith")
          => \A pair \in LsChildlessPairs(probe) :
                OnlyInnerRecord(RecordsOf(normalized.out), pair)
    /\ (normalized.call = "normalize" /\ normalized.adapter = "otel")
          => \A pair \in OtelChildlessPairs(probe) :
                OnlyInnerRecord(RecordsOf(normalized.out), pair)

\* the run detector's condition, read off the keys of the value
RunShaped(v) ==
    /\ v.t = "object"
    /\ ~("outputs" \in KeysOf(v) /\ FieldOf(v, "outputs").t = "array")
    /\ ~(/\ "input" \in KeysOf(v)
         /\ {"prompt", "context_chunks"} \subseteq KeysOf(FieldOf(v, "input")))
    /\ KeysOf(v) \cap {"run_id", "id"} # {}
    /\ KeysOf(v) \cap {"inputs", "outputs", "run_type", "name"} # {}

\* a non-empty array of runs
RunArray(v) ==
    v.t = "array" /\ Len(v.a) > 0 /\ \A i \in 1..Len(v.a) : RunShaped(v.a[i])

\* an object with an array-valued runs field
HasRunsArray(v) == "runs" \in KeysOf(v) /\ FieldOf(v, "runs").t = "array"

C9_DetectReturnsBoolean ==
    detected.call = "detect" => detected.out.t = "boolean"

RECURSIVE DocumentsInPreOrder(_)
\* the documents of the retriever runs of a run tree, the run before its
\* children and the children in their order
DocumentsInPreOrder(run) ==
    LET own == IF FieldOrNone(run, "run_type") = JStr("retriever")
               THEN FieldOf(FieldOf(run, "outputs"), "documents").a
               ELSE <<>>
        children == IF "child_runs" \in KeysOf(run) THEN FieldOf(run, "child_runs").a ELSE <<>>
        RECURSIVE below(_)
        below(i) == IF i > Len(children) THEN <<>>
                    ELSE DocumentsInPreOrder(children[i]) \o below(i + 1)
    IN  own \o below(1)

\* the chunk is the document: text, source and score
ChunkOfDocument(chunk, doc) ==
    /\ FieldOrNone(chunk, "text") = FieldOf(doc, "page_content")
    /\ FieldOrNone(chunk, "source") = FieldOf(FieldOf(doc, "metadata"), "source")
    /\ FieldOrNone(chunk, "score") = FieldOf(doc, "score")

\* the context chunks of a record
ChunksOf(record) ==
    IF "context_chunks" \in KeysOf(FieldOrNone(record, "input"))
       /\ FieldOf(FieldOf(record, "input"), "context_chunks").t = "array"
    THEN FieldOf(FieldOf(record, "input"), "context_chunks").a
    ELSE <<>>

C18_RootFallbackYieldsRecord ==
    /\ (/\ normalized.call = "normalize" /\ normalized.adapter = "langsmith"
        /\ probe \in LangSmithTrees \cup RetrieverTrees
        /\ \A r \in RunsOfTree(probe) : ~LsIsLLM(r))
          => Len(RecordsOf(normalized.out)) >= 1
    /\ (/\ normalized.call = "normalize" /\ normalized.adapter = "otel"
        /\ probe \in OtelSpanLists \cup OrphanSpanLists
        /\ \A sp \in ElementsOf(probe, "spans") : ~OtelIsLLM(sp))
          => Len(RecordsOf(normalized.out)) >= 1

RECURSIVE SpansBelow(_, _, _)
\* the spans of a span list below the given span, down to n levels
SpansBelow(data, span, n) ==
    IF n = 0 THEN {}
    ELSE SpansUnder(data, span)
         \cup UNION {SpansBelow(data, c, n - 1) : c \in SpansUnder(data, span)}

\* C19: for every OTel span list, each record produced from an LLM span
\* corresponds to a span with no LLM descendant at any depth; an LLM span whose
\* only LLM descendant is a grandchild reached through a non-LLM span produces
\* no record.
C19_NoRecordAboveLLMSpan ==
    (/\ normalized.call = "normalize" /\ normalized.adapter = "otel"
     /\ probe \in OtelSpanLists \cup OrphanSpanLists)
       => \A i \in 1..Len(RecordsOf(normalized.out)) :
             \A sp \in ElementsOf(probe, "spans") :
                (OtelIsLLM(sp) /\ FieldOf(sp, "spanId") = Get(RecordsOf(normalized.out)[i], "id"))
                   => \A d \in SpansBelow(probe, sp, MaxDepth) : ~OtelIsLLM(d)

\* C22: for every value on which a tree adapter's detect returns true, that
\* adapter's normalize returns without raising: OTel spans without a name or
\* without timestamps, LangSmith runs whose inputs or outputs are not objects
\* and retriever documents that are null or scalars included.
C22_NormalizeNeverRaises ==
    normalized.call = "normalize" => ~IsThrow(normalized.out)

\* the messages of a list that have the role given
WithRole(list, role) == SelectSeq(list, LAMBDA m : FieldOf(m, "role") = JStr(role))

\* C23: when a LangSmith run's inputs.messages is an array, the record's prompt
\* is the content of the last message with role 'user', and the content of the
\* first message when no message has role 'user'; the system prompt is the
\* content of the first message with role 'system', else absent.
C23_PromptFromMessages ==
    \A list \in MessageLists :
        (normalized.call = "normalize" /\ normalized.adapter = "langsmith"
         /\ probe = LsMessageRun(list))
           => /\ Get(Get(normalized.out, "input"), "prompt")
                    = IF WithRole(list, "user") # <<>>
                      THEN FieldOf(WithRole(list, "user")[Len(WithRole(list, "user"))], "content")
                      ELSE FieldOf(list[1], "content")
              /\ Get(Get(normalized.out, "input"), "system_prompt")
                    = IF WithRole(list, "system") # <<>>
                      THEN FieldOf(WithRole(list, "system")[1], "content")
                      ELSE Undefined

\* C24: when an OTel prompt attribute resolves to an ordered list of
\* role/content entries, the OTel adapter extracts the same prompt and system
\* prompt as the LangSmith adapter extracts from inputs.messages holding the
\* same list, lists with several user entries and with no user entry included.
C24_SamePromptAsLangSmith ==
    \A list \in MessageLists :
        (normalized.call = "normalize" /\ normalized.adapter = "otel"
         /\ probe = OtelMessageSpan(list))
           => /\ Get(Get(normalized.out, "input"), "prompt")
                    = Get(Get(langSmithNormalize(LsMessageRun(list)), "input"), "prompt")
              /\ Get(Get(normalized.out, "input"), "system_prompt")
                    = Get(Get(langSmithNormalize(LsMessageRun(list)), "input"), "system_prompt")

\* C25: in an OTel export that holds spans of several traces, the
\* context_chunks of each record come only from retriever spans of the record's
\* own trace.
C25_ContextOfOwnTrace ==
    (normalized.call = "normalize" /\ normalized.adapter = "otel" /\ probe \in MultiTraceExports)
       => \A i \in 1..Len(RecordsOf(normalized.out)) :
             \A c \in 1..Len(ChunksOf(RecordsOf(normalized.out)[i])) :
                FieldOf(ChunksOf(RecordsOf(normalized.out)[i])[c], "text")
                   = JStr("doc-" \o FieldOf(FieldOf(RecordsOf(normalized.out)[i],
                                                    "trace_metadata"), "trace_id").s)

\* the number a time stamp stands for
NanosOf(stamp) ==
    CASE stamp = "999999" -> 999999
      [] stamp = "1000000" -> 1000000
      [] stamp = "2500000" -> 2500000
      [] OTHER -> 0

\* the latency of the one record, in its trace_metadata and in its output
LatencyIs(out, ms) ==
    /\ FieldOf(FieldOf(out, "trace_metadata"), "latency_ms") = JNum(ms)
    /\ FieldOf(FieldOf(out, "outputs").a[1], "latency_ms") = JNum(ms)

-----------------------------------------------------------------------------
(* Properties of the import orchestrator, checked under SpecImport and SpecPair *)

\* the non-blank lines of the payload of a call
PayloadLines(j) == SelectSeq(job[j].file.lines, LAMBDA l : l.kind # "blank")

\* the prompt and the output texts of a record
PromptOf(record) == Get(Get(record, "input"), "prompt")
OutputTexts(record) ==
    [i \in 1..Len(Get(record, "outputs").a) |-> Get(Get(record, "outputs").a[i], "text")]

\* C2: the result of an import has success = true if and only if at least one
\* record was produced, for documents handled by an adapter or by the generic
\* chain, for line-delimited input and for the empty payload.
C2_SuccessIffRecords ==
    \A j \in 1..Len(job) :
        job[j].pc = "done" => (job[j].result.success <=> Len(job[j].result.items) >= 1)

\* C3: in line-delimited import every line that is not valid JSON produces exactly
\* one error entry whose line field is the 1-based number of that line in the
\* payload, blank lines counted, and every line is still processed.
C3_ErrorLineIsPayloadLine ==
    \A j \in 1..Len(job) :
        (job[j].pc = "done" /\ job[j].mode = "lines")
           => /\ Len(job[j].cuts) = Len(PayloadLines(j))
              /\ \A p \in 1..Len(job[j].file.lines) :
                    job[j].file.lines[p].kind = "invalid"
                       => Cardinality({e \in 1..Len(job[j].result.errors) :
                                          job[j].result.errors[e].line = p}) = 1

\* the records and the errors the m-th non-blank line of a call produced
RecordsOfLine(j, m) ==
    SubSeq(job[j].result.items,
           (IF m = 1 THEN 0 ELSE job[j].cuts[m - 1].items) + 1, job[j].cuts[m].items)
ErrorsOfLine(j, m) ==
    SubSeq(job[j].result.errors,
           (IF m = 1 THEN 0 ELSE job[j].cuts[m - 1].errors) + 1, job[j].cuts[m].errors)

\* C4: for two payloads that are both processed line by line and differ only in
\* the content of one non-blank line, the records and errors produced for every
\* other line are identical.
C4_LinesIndependent ==
    (/\ Len(job) = 2
     /\ job[1].pc = "done" /\ job[1].mode = "lines"
     /\ job[2].pc = "done" /\ job[2].mode = "lines")
       => \A m \in 1..Len(PayloadLines(1)) :
             PayloadLines(1)[m] = PayloadLines(2)[m]
                => /\ RecordsOfLine(1, m) = RecordsOfLine(2, m)
                   /\ ErrorsOfLine(1, m) = ErrorsOfLine(2, m)

\* two payloads were imported of which one has an invalid line where the other
\* has a run of two records, and a later line they share produced a record in both
C4_Witness ==
    /\ Len(job) = 2
    /\ job[1].pc = "done" /\ job[1].mode = "lines"
    /\ job[2].pc = "done" /\ job[2].mode = "lines"
    /\ \E k \in 1..Len(PayloadLines(1)) :
          /\ PayloadLines(1)[k] = InvalidLine
          /\ PayloadLines(2)[k] = JsonLine(TwoLeafRun)
          /\ \E m \in (k + 1)..Len(PayloadLines(1)) :
                /\ PayloadLines(1)[m] = PayloadLines(2)[m]
                /\ Len(RecordsOfLine(1, m)) > 0
                /\ RecordsOfLine(1, m) = RecordsOfLine(2, m)

\* C5: a file whose reported size is greater than 50*1024*1024 is rejected with
\* success = false, no records and exactly one error that mentions the 50MB
\* limit, and its content is never read or parsed; a file of that size or less
\* passes the size gate and its content is read.
C5_SizeGate ==
    \A j \in 1..Len(job) :
        IF job[j].file.size > 50 * 1024 * 1024
        THEN /\ ~job[j].textRead
             /\ job[j].pc \in {"start", "done"}
             /\ job[j].mode = "none"
             /\ job[j].pc = "done"
                  => /\ job[j].result.success = FALSE
                     /\ job[j].result.itemsImported = 0
                     /\ job[j].result.items = <<>>
                     /\ Len(job[j].result.errors) = 1
                     /\ includes(job[j].result.errors[1].message, "50MB")
        ELSE /\ job[j].pc # "start" => job[j].textRead
             /\ job[j].pc = "done" => job[j].mode \in {"document", "lines"}

\* a file of 51 MiB with a payload of valid lines was rejected
C5_Witness ==
    /\ job[1].pc = "done"
    /\ job[1].file.size = 51 * 1024 * 1024
    /\ job[1].file.lines = <<JsonLine(GenericDoc), JsonLine(FineTuneDoc)>>
    /\ job[1].result.success = FALSE

\* C6: every record returned by import has an input.prompt that is present and is
\* a string, whichever path produced it.
C6_PromptIsString ==
    \A j \in 1..Len(job) :
        job[j].pc = "done"
           => \A i \in 1..Len(job[j].result.items) :
                 /\ In("prompt", Get(job[j].result.items[i], "input"))
                 /\ PromptOf(job[j].result.items[i]).t = "string"

\* an object with a string under a prompt-like key and under a response-like
\* key, and with none of the keys of the other documented shapes
GenericShaped(v) ==
    /\ v.t = "object"
    /\ \E k \in KeysOf(v) \cap {"prompt", "question", "input"} : FieldOf(v, k).t = "string"
    /\ \E k \in KeysOf(v) \cap {"response", "answer", "output", "completion"} :
          FieldOf(v, k).t = "string"
    /\ KeysOf(v) \cap {"inputs", "outputs", "messages", "choices", "resourceSpans", "spans",
                       "traceId"} = {}

\* the documented shapes with the prompts their records carry
DocumentedShapes ==
    {<<FineTuneDoc, {JStr("u?")}>>, <<CompletionDoc, {JStr("p?")}>>,
     <<GenericDoc, {JStr("Hello")}>>, <<RagDoc, {JStr("r?")}>>,
     <<TwoLeafRun, {JStr("q-n2"), JStr("q-n3")}>>}

\* C10: a payload of one of the five documented shapes that passes the size gate
\* yields records with the prompts of that shape; and an object with a prompt-like and a response-like
\* key and none of inputs, outputs, messages, choices, resourceSpans, spans,
\* traceId yields one record whose prompt is its prompt value and whose only
\* output has its response value as text, also when it carries id or name.
C10_ShapesRouted ==
    \A j \in 1..Len(job) :
        (/\ job[j].pc = "done" /\ job[j].mode # "none"
         /\ Len(PayloadLines(j)) = 1 /\ PayloadLines(j)[1].kind = "json")
           => /\ \A shape \in DocumentedShapes :
                    PayloadLines(j)[1].value = shape[1]
                       => /\ Len(job[j].result.items) > 0
                          /\ {PromptOf(job[j].result.items[i]) :
                                i \in 1..Len(job[j].result.items)} = shape[2]
              /\ GenericShaped(PayloadLines(j)[1].value)
                    => /\ Len(job[j].result.items) = 1
                       /\ \E k \in {"prompt", "question", "input"} :
                             /\ k \in KeysOf(PayloadLines(j)[1].value)
                             /\ PromptOf(job[j].result.items[1])
                                   = FieldOf(PayloadLines(j)[1].value, k)
                       /\ \E k \in {"response", "answer", "output", "completion"} :
                             /\ k \in KeysOf(PayloadLines(j)[1].value)
                             /\ OutputTexts(job[j].result.items[1])
                                   = <<FieldOf(PayloadLines(j)[1].value, k)>>

\* C21: for every file content within the size limit parseJsonlFile completes
\* with an import result and no exception escapes it: a JSON syntax error, an
\* exception raised by an adapter's detect or normalize and an exception raised
\* by the generic chain end up as recorded errors or as a fallback to another
\* path.
C21_NoExceptionEscapes ==
    \A j \in 1..Len(job) :
        job[j].pc = "done"
           => /\ job[j].result.t = "result"
              /\ job[j].result.itemsImported = Len(job[j].result.items)
              /\ \A i \in 1..Len(job[j].result.items) : ~IsThrow(job[j].result.items[i])

\* a span list whose span has no name was detected by the OTel adapter, whose
\* normalize raised; the import fell back to the generic chain and returned a
\* result that records the adapter's error
C21_Witness ==
    /\ job[1].pc = "done"
    /\ job[1].file.lines = <<JsonLine(NamelessSpanDoc)>>
    /\ job[1].mode = "document"
    /\ job[1].result.t = "result"
    /\ Len(job[1].result.errors) >= 1
    /\ job[1].result.errors[1].line = 0

-----------------------------------------------------------------------------
(* Properties of records imported again, checked under SpecReimport *)

\* the document a call of parseJsonlFile was given, when its payload is one line
DocOf(j) == job[j].file.lines[1].value

\* an object with an input that has a prompt, and an array of outputs
CanonicalShaped(v) ==
    /\ v.t = "object"
    /\ "input" \in KeysOf(v) /\ "prompt" \in KeysOf(FieldOf(v, "input"))
    /\ "outputs" \in KeysOf(v) /\ FieldOf(v, "outputs").t = "array"

\* the value under a key, or "absent"
FieldOrAbsent(v, k) == IF k \in KeysOf(v) THEN FieldOf(v, k) ELSE [t |-> "absent"]

\* an id or a time stamp that is neither absent nor the empty string
Filled(v, k) == k \in KeysOf(v) /\ FieldOf(v, k) # JStr("")

\* the record is the document with respect to the keys given
SameFields(record, doc, keys) ==
    \A k \in keys : FieldOrAbsent(record, k) = FieldOrAbsent(doc, k)

\* C11 (as amended): importing a canonical record returns one record with the
\* document's tags, input, outputs and trace_metadata, with its id and its
\* created_at when these are not empty, and with a generated id or time when
\* they are absent or empty; importing that record again returns the same id,
\* created_at, tags, input, outputs and trace_metadata.
C11_PassThroughKeeps ==
    /\ (job[1].pc = "done" /\ CanonicalShaped(DocOf(1)))
          => /\ Len(job[1].result.items) = 1
             /\ SameFields(job[1].result.items[1], DocOf(1),
                           {"tags", "input", "outputs", "trace_metadata"})
             /\ \A k \in {"id", "created_at"} :
                   IF Filled(DocOf(1), k)
                   THEN SameFields(job[1].result.items[1], DocOf(1), {k})
                   ELSE FieldOrAbsent(job[1].result.items[1], k) \in {uuidv4, Now}
    /\ (Len(job) >= 2 /\ job[2].pc = "done" /\ CanonicalShaped(DocOf(1)))
          => /\ Len(job[2].result.items) = 1
             /\ SameFields(job[2].result.items[1], job[1].result.items[1],
                           {"id", "created_at", "tags", "input", "outputs", "trace_metadata"})

\* a canonical record with id, tags and trace_metadata has been imported twice
C11_Witness ==
    /\ Len(job) = 2
    /\ job[2].pc = "done"
    /\ Filled(DocOf(1), "id")
    /\ "trace_metadata" \in KeysOf(DocOf(1))
    /\ Len(job[2].result.items) = 1
    /\ FieldOrAbsent(job[2].result.items[1], "trace_metadata")
          = FieldOf(DocOf(1), "trace_metadata")

\* C11 (as stated): importing a canonical record returns it with the id,
\* created_at, tags, input, outputs and trace_metadata it carries, and importing
\* the result again returns the same input, outputs and trace_metadata
C11_PassThroughKeepsAll ==
    /\ (job[1].pc = "done" /\ CanonicalShaped(DocOf(1)))
          => /\ Len(job[1].result.items) = 1
             /\ SameFields(job[1].result.items[1], DocOf(1),
                           KeysOf(DocOf(1)) \cap {"id", "created_at", "tags", "input", "outputs",
                                                  "trace_metadata"})
    /\ (Len(job) >= 2 /\ job[2].pc = "done" /\ CanonicalShaped(DocOf(1)))
          => /\ Len(job[2].result.items) = 1
             /\ SameFields(job[2].result.items[1], job[1].result.items[1],
                           {"input", "outputs", "trace_metadata"})

\* the status of a record
StatusOf(record) == FieldOrAbsent(record, "status")

\* every line of the payload of a call is a canonical record
AllCanonical(j) ==
    \A p \in 1..Len(job[j].file.lines) :
        job[j].file.lines[p].kind = "json" /\ CanonicalShaped(job[j].file.lines[p].value)

\* C12 (as amended): every record returned by import has status 'pending',
\* whichever adapter or generic-chain step produced it and whatever status the
\* source unit carries, except a canonical record that is passed through, which
\* keeps the non-empty status it carries.
C12_StatusPendingOrKept ==
    \A j \in 1..Len(job) :
        job[j].pc = "done"
           => IF AllCanonical(j)
              THEN /\ Len(job[j].result.items) = Len(job[j].file.lines)
                   /\ \A i \in 1..Len(job[j].result.items) :
                         StatusOf(job[j].result.items[i])
                            = IF Filled(job[j].file.lines[i].value, "status")
                              THEN FieldOf(job[j].file.lines[i].value, "status")
                              ELSE JStr("pending")
              ELSE \A i \in 1..Len(job[j].result.items) :
                      StatusOf(job[j].result.items[i]) = JStr("pending")

\* a generic object that carries status 'approved' was imported as a pending
\* record, and that record was imported again
C12_Witness ==
    /\ Len(job) = 2
    /\ job[2].pc = "done"
    /\ DocOf(1) = SetKey(GenericDoc, "status", JStr("approved"))
    /\ Len(job[1].result.items) = 1
    /\ StatusOf(job[1].result.items[1]) = JStr("pending")
    /\ StatusOf(job[2].result.items[1]) = JStr("pending")

\* C12 (as stated): every record returned by import has status 'pending'
C12_StatusPending ==
    \A j \in 1..Len(job) :
        job[j].pc = "done"
           => \A i \in 1..Len(job[j].result.items) :
                 StatusOf(job[j].result.items[i]) = JStr("pending")

\* C13: a unit that carries no response data yields a record whose outputs
\* list is empty: a LangSmith run whose outputs are absent or {}, an OTel span
\* with no response attribute and a fine-tune object with no assistant message
\* all produce outputs = [].
C13_NoResponseNoOutput ==
    (job[1].pc = "done" /\ DocOf(1) \in NoResponseDocs)
       => /\ Len(job[1].result.items) = 1
          /\ FieldOrAbsent(job[1].result.items[1], "outputs") = JArr(<<>>)

\* C15: every context chunk of every record returned by import has a score
\* that is present and a number, 0 when the source document has no score, for
\* chunks built by the LangSmith adapter, the OTel adapter, the fine-tune and
\* generic converters, and for chunks of a canonical record that is passed
\* through.
C15_ChunksScored ==
    \A j \in 1..Len(job) :
        job[j].pc = "done"
           => \A i \in 1..Len(job[j].result.items) :
                 \A c \in 1..Len(ChunksOf(job[j].result.items[i])) :
                    /\ FieldOrAbsent(ChunksOf(job[j].result.items[i])[c], "score").t = "number"
                    /\ (j = 1 /\ DocOf(1) \in UnscoredDocs)
                          => FieldOf(ChunksOf(job[j].result.items[i])[c], "score") = JNum(0)

-----------------------------------------------------------------------------
(* Properties of the mapping table, checked under SpecMappings *)

\* the calls that gave a field a value
CallsGiving(f) == {c \in 1..Len(regLog) : \E i \in 1..Len(regLog[c]) : regLog[c][i].k = f}

\* the largest number of a non-empty set of numbers
Latest(calls) == CHOOSE c \in calls : \A d \in calls : d <= c

\* the most recent call that gave the prompt attributes gave the key among them
PromptKeyRegistered(key) ==
    /\ CallsGiving("promptAttributes") # {}
    /\ \E i \in 1..Len(lastGiven(regLog[Latest(CallsGiving("promptAttributes"))],
                                 "promptAttributes")) :
          lastGiven(regLog[Latest(CallsGiving("promptAttributes"))], "promptAttributes")[i] = key

\* C16: when a custom prompt-attribute key is registered through
\* setOTelMappings before an import, a span that exposes only that key (no
\* default prompt or response key, no name matching llmSpanNames) is classified
\* as an LLM span and its record's input.prompt is the value of the attribute.
C16_CustomPromptKey ==
    (job[1].pc = "done" /\ DocOf(1) \in CustomSpanDocs
     /\ PromptKeyRegistered("custom.input.text"))
       => /\ Len(job[1].result.items) = 1
          /\ FieldOf(job[1].result.items[1], "id") = JStr("s2")
          /\ FieldOf(FieldOf(job[1].result.items[1], "trace_metadata"), "span_type") = JStr("llm")
          /\ PromptOf(job[1].result.items[1]) = JStr("Custom prompt")

\* the custom key was registered in place of the default keys, and the span
\* below a chain root was imported as the only record
C16_Witness ==
    /\ job[1].pc = "done"
    /\ DocOf(1) = Obj1("spans", JArr(<<OtelSpan("s1", "", "chain"), CustomSpan("s1")>>))
    /\ otelMappings.promptAttributes = <<"custom.input.text">>
    /\ Len(job[1].result.items) = 1
    /\ PromptOf(job[1].result.items[1]) = JStr("Custom prompt")

\* C17: after any sequence of setOTelMappings calls, every field of the table
\* that the most recent call did not specify equals the built-in default,
\* whatever earlier calls set, and the fields it specified equal the given value.
C17_UnspecifiedFieldsDefault ==
    Len(regLog) > 0
       => \A f \in DOMAIN DEFAULT_OTEL_MAPPINGS :
             otelMappings[f] = IF Len(regLog) \in CallsGiving(f)
                               THEN lastGiven(regLog[Len(regLog)], f)
                               ELSE DEFAULT_OTEL_MAPPINGS[f]

-----------------------------------------------------------------------------
(* Properties of the export, checked under SpecExport *)

\* a string that is present and not empty
NonEmptyText(v) == v.t = "string" /\ v.s # ""

\* the outputs of a record whose model is the one given
OutputsOfModel(record, model) ==
    SelectSeq(FieldOf(record, "outputs").a, LAMBDA o : FieldOrNone(o, "model_id") = model)

\* the text the assistant message is to carry, undefined when there is none
AssistantText(record) ==
    LET feedback == FieldOf(record, "human_feedback")
        outputs == FieldOf(record, "outputs").a
    IN  IF NonEmptyText(FieldOrNone(feedback, "corrected_text"))
        THEN FieldOf(feedback, "corrected_text")
        ELSE IF NonEmptyText(FieldOrNone(feedback, "selected_model_id"))
        THEN IF OutputsOfModel(record, FieldOf(feedback, "selected_model_id")) # <<>>
             THEN FieldOrNone(OutputsOfModel(record, FieldOf(feedback, "selected_model_id"))[1],
                              "text")
             ELSE Undefined
        ELSE IF outputs # <<>> THEN FieldOrNone(outputs[1], "text") ELSE Undefined

\* the messages of the line of a record
MessagesOf(record) ==
    (IF NonEmptyText(FieldOrNone(FieldOf(record, "input"), "system_prompt"))
     THEN <<Obj2("role", JStr("system"),
                 "content", FieldOf(FieldOf(record, "input"), "system_prompt"))>>
     ELSE <<>>)
    \o <<Obj2("role", JStr("user"), "content", FieldOf(FieldOf(record, "input"), "prompt"))>>
    \o (IF NonEmptyText(AssistantText(record))
        THEN <<Obj2("role", JStr("assistant"), "content", AssistantText(record))>>
        ELSE <<>>)

\* C20: exportToJsonl without includeMetadata emits one line per item whose
\* messages are, in order, the system message (only if system_prompt is
\* non-empty), the user message with the prompt, and an assistant message whose
\* content is the corrected text if non-empty, otherwise the text of the output
\* of the selected model when one is selected, otherwise the text of the first
\* output; the assistant message is omitted only when there is no such text.
C20_ExportMessages ==
    (normalized.call = "exportToJsonl" /\ ~normalized.includeMetadata)
       => /\ Len(normalized.out) = Len(job[1].result.items)
          /\ \A i \in 1..Len(normalized.out) :
                normalized.out[i]
                   = JsonLine(Obj1("messages", JArr(MessagesOf(job[1].result.items[i]))))

\* two records were exported: the first with a system prompt and model b
\* selected, the second with a corrected text
C20_Witness ==
    /\ normalized.call = "exportToJsonl"
    /\ ~normalized.includeMetadata
    /\ Len(normalized.out) = 2
    /\ normalized.out[1]
          = JsonLine(Obj1("messages",
                          JArr(<<Obj2("role", JStr("system"), "content", JStr("Be helpful")),
                                 Obj2("role", JStr("user"), "content", JStr("Hello")),
                                 Obj2("role", JStr("assistant"), "content", JStr("tb"))>>)))
    /\ normalized.out[2]
          = JsonLine(Obj1("messages",
                          JArr(<<Obj2("role", JStr("user"), "content", JStr("Hello")),
                                 Obj2("role", JStr("assistant"),
                                      "content", JStr("Corrected response"))>>)))

-----------------------------------------------------------------------------
(* Properties of the review store, checked under SpecChunks and SpecStore *)

\* the status of the row with the id
statusIn(table, id) == Get(dbGetItem(table, id), "status")

\* every row but the one with the id is as before, and no row came or went
OthersKept(id) ==
    /\ Len(db') = Len(db)
    /\ \A k \in 1..Len(db) : idOf(db[k]) # id => db'[k] = db[k]

Quiescent == \A i \in Slots : inFlight[i] = NoCall

\* C28: in every state of the review store in which no async action is in
\* flight, selectedIds is a subset of the ids of the loaded items and
\* selectedItemId is null or the id of a loaded item.
C28_SelectionWithinLoaded ==
    Quiescent
       => /\ store.selectedIds \subseteq idsOf(store.items)
          /\ store.selectedItemId = Null \/ store.selectedItemId.s \in idsOf(store.items)

\* the loaded items with the status
loadedWith(status) ==
    Cardinality({k \in 1..Len(store.items) : Get(store.items[k], "status") = JStr(status)})

\* C29: whenever the store is quiescent, stats.total is the number of loaded
\* items, each of stats.pending, approved, rejected and modified is the number
\* of loaded items with that status, and the four sum to stats.total.
C29_StatsMatchLoadedItems ==
    Quiescent
       => /\ store.stats.total = Len(store.items)
          /\ store.stats.pending = loadedWith("pending")
          /\ store.stats.approved = loadedWith("approved")
          /\ store.stats.rejected = loadedWith("rejected")
          /\ store.stats.modified = loadedWith("modified")
          /\ store.stats.pending + store.stats.approved + store.stats.rejected
                + store.stats.modified = store.stats.total

-----------------------------------------------------------------------------
(* Properties of the round trip, checked under SpecRoundTrip *)

\* a value without the properties whose value is undefined
RECURSIVE withoutUndefined(_)
withoutUndefined(v) ==
    CASE v.t = "object" ->
            JObj([i \in 1..Len(SelectSeq(v.kv, LAMBDA e : e.v.t # "undefined")) |->
                    KV(SelectSeq(v.kv, LAMBDA e : e.v.t # "undefined")[i].k,
                       withoutUndefined(SelectSeq(v.kv, LAMBDA e : e.v.t # "undefined")[i].v))])
      [] v.t = "array" -> JArr([i \in 1..Len(v.a) |-> withoutUndefined(v.a[i])])
      [] OTHER -> v

\* the two records agree on the property
SameProperty(a, b, k) ==
    withoutUndefined(FieldOrNone(a, k)) = withoutUndefined(FieldOrNone(b, k))

\* the import of the text exported with includeMetadata has returned
RoundTripDone ==
    /\ Len(job) = 2
    /\ job[2].pc = "done"
    /\ normalized.call = "exportToJsonl"
    /\ normalized.includeMetadata
    /\ job[2].file.lines = joinLines(normalized.out)

\* C30: export then import is a round trip: the import of the text that
\* exportToJsonl with includeMetadata returns for a list of canonical records
\* returns as many records in the same order, each with the same id, status,
\* input and outputs.
C30_ExportImportRoundTrip ==
    RoundTripDone
       => /\ Len(job[2].result.items) = Len(job[1].result.items)
          /\ \A i \in 1..Len(job[1].result.items) :
                (i <= Len(job[2].result.items))
                   => \A k \in {"id", "status", "input", "outputs"} :
                         SameProperty(job[2].result.items[i], job[1].result.items[i], k)

=============================================================================
